---- MODULE Spec2Model ----
(***************************************************************************)
(* State-machine model of the StochasticTree sampling core: the BART and   *)
(* XBART drivers (src/src/interface.cpp), the grow/prune and grow-from-    *)
(* root samplers (src/include/stochtree/sampler.h), the partition trackers *)
(* and the observation-to-leaf map                                         *)
(* (src/include/stochtree/partition_tracker.h) and the residual column     *)
(* (src/include/stochtree/data.h).                                         *)
(*                                                                         *)
(* Observations, features, trees, draw slots and node ids are 0-based as   *)
(* in the code.  Outcomes, residuals and leaf values are integers in units *)
(* of 1/(N*num_trees), so that the initial leaf value mean(y)/num_trees is *)
(* exact; residual updates round as floating-point additions do, in a      *)
(* format of MantBits mantissa bits.  Covariate values are even integers;  *)
(* the odd number DblMin stands for std::numeric_limits<double>::min(),    *)
(* the smallest positive double, which lies strictly between 0 and every   *)
(* positive covariate value.                                               *)
(*                                                                         *)
(* Three specifications: Spec runs the drivers and PredictSamples;         *)
(* SpecForced applies AddSplitToModel / RemoveSplitFromModel to any leaf   *)
(* and leaf parent; SpecCycle runs one add-back / subtract cycle on values *)
(* that reach the rounding range.                                          *)
(***************************************************************************)
EXTENDS Integers, Sequences, FiniteSets, TLC

VARIABLES
    config,            \* Config: method, num_trees, num_burnin, num_samples, min_samples_leaf
    train,             \* train_dataset_: covariates X and outcome y
    prediction,        \* prediction_dataset_: rows to predict, or Null
    residual,          \* Dataset::residuals_
    model_draws,       \* model_draws_: slot -> ensemble (tree_num -> Tree) or Null
    node_tracker,      \* UnsortedNodeSampleTracker: tree_num -> FeatureUnsortedPartition
    sorted_tracker,    \* SortedNodeSampleTracker: feature -> FeaturePresortPartition, or Null
    mapper,            \* SampleNodeMapper: tree_num -> observation -> node id
    pc,                \* position of the driver
    i, j,              \* sweep index and tree index of the driver loops
    model_iter, prev_model_iter,
    split_queue,       \* GFRTreeSampler::SampleTree: split_queue_
    node_index_map,    \* GFRTreeSampler::SampleTree: node_index_map_
    result,            \* value returned by PredictSamples, or Null
    accessed,          \* history: draw-slot indices used so far
    slot_sweep,        \* history: slot -> sweep whose draw it holds (-1: none)
    last_step,         \* history: the last driver step, <<sweep, tree, step>>
    hist,              \* history: the last forced grow (snapshot) or round trip, or the
                       \* residual before an add-back / subtract cycle
    sigma_log,         \* history: <<sweep, trees updated so far>> of every sigma^2 draw
    files,             \* sweeps i for which model_<i>.txt has been written
    runs               \* two runs of the same configuration, data and seed

vars == <<config, train, prediction, residual, model_draws, node_tracker,
          sorted_tracker, mapper, pc, i, j, model_iter, prev_model_iter,
          split_queue, node_index_map, result, accessed, slot_sweep,
          last_step, hist, sigma_log, files, runs>>

Null == <<>>

(***************************************************************************)
(* Bounds of the model.                                                    *)
(***************************************************************************)
MaxTrees == 2        \* num_trees ranges over 1..MaxTrees
MaxBurnin == 1       \* num_burnin ranges over 0..MaxBurnin
MaxSamples == 2      \* num_samples ranges over 0..MaxSamples
MaxTreeSweeps == 4   \* num_trees * (num_burnin + num_samples) is at most MaxTreeSweeps
MantBits == 6        \* mantissa width of the model's floating-point format
MaxNodes == 5        \* forced grows stop when the trees have MaxNodes live nodes in all

(***************************************************************************)
(* Program constants.                                                      *)
(***************************************************************************)
kRoot == 0
kInvalidNodeId == -1
DblMin == 1          \* std::numeric_limits<double>::min()
DblMax == 1000       \* std::numeric_limits<double>::max()

(***************************************************************************)
(* Generic helpers.                                                        *)
(***************************************************************************)
ZB(s) == [k \in 0..(Len(s) - 1) |-> s[k + 1]]

RECURSIVE SumTo(_, _)
SumTo(f, n) == IF n < 0 THEN 0 ELSE f[n] + SumTo(f, n - 1)

Range(f) == {f[x] : x \in DOMAIN f}

(***************************************************************************)
(* Floating point.  Residuals are doubles; the model keeps the rounding of *)
(* IEEE arithmetic on a format with MantBits mantissa bits: an integer is  *)
(* representable when it is m * 2^e with |m| < 2^MantBits, and a result    *)
(* is rounded to the nearest representable value, ties to even mantissa.   *)
(***************************************************************************)
Abs(x) == IF x < 0 THEN -x ELSE x

RECURSIVE Quantum(_, _)
\* spacing of the representable values around magnitude a
Quantum(a, q) == IF a < (2 ^ MantBits) * q THEN q ELSE Quantum(a, 2 * q)

Fl(x) ==
    LET a == Abs(x)
        q == Quantum(a, 1)
        m == a \div q
        rem == a % q
        up == (2 * rem > q) \/ (2 * rem = q /\ m % 2 = 1)
        r == (IF up THEN m + 1 ELSE m) * q
    IN IF x < 0 THEN -r ELSE r

\* variants: the value is added twice / subtracted short by one
ResidualAddTwice(r, val) == Fl(Fl(r + val) + val)
ResidualSubtractShort(r, val) == Fl(r - val + 1)

\* Dataset::ResidualAdd / ResidualSubtract on one entry
ResidualAdd(r, val) == Fl(r + val)
ResidualSubtract(r, val) == Fl(r - val)

RECURSIVE SubtractTimes(_, _, _)
\* n successive ResidualSubtract of the same value
SubtractTimes(r, val, n) ==
    IF n = 0 THEN r ELSE SubtractTimes(ResidualSubtract(r, val), val, n - 1)

(***************************************************************************)
(* Datasets.  Row-major covariates (Dataset::CovariateValue), one outcome. *)
(***************************************************************************)
MkData(rows, y) == [X |-> ZB([r \in 1..Len(rows) |-> ZB(rows[r])]), y |-> ZB(y)]

\* the training set of the sampler runs, and the sets of the forced grow/prune runs
SweepData == MkData(<< <<0, 4>>, <<2, 2>>, <<4, 0>> >>, <<1, 0, 2>>)

\* two observations: a constant positive and a constant negative column
PairData == MkData(<< <<2, -2>>, <<2, -2>> >>, <<1, 0>>)
\* four observations: a constant zero column and an increasing column
ZeroData == MkData(<< <<0, 2>>, <<0, 4>>, <<0, 6>>, <<0, 8>> >>, <<1, 0, 2, 1>>)
\* the datasets of the sweeps
SweepSets == {SweepData, PairData}

TrainSets ==
    { SweepData,
      MkData(<< <<2, -2>>, <<0, -2>>, <<2, 0>>, <<0, 2>> >>, <<0, 1, 1, 2>>) }

PredictSets ==
    { ZB(<< ZB(<<0, 0>>), ZB(<<4, 2>>) >>),
      ZB(<< ZB(<<2, -2>>), ZB(<<0, 4>>), ZB(<<4, 4>>) >>) }

LeafVals == {1, 3}        \* values a leaf-parameter draw can take

NumObservations(d) == Cardinality(DOMAIN d.y)
NumCovariates(d) == Cardinality(DOMAIN d.X[0])
CovariateValue(d, row, col) == d.X[row][col]
Obs == DOMAIN train.y
Feats == DOMAIN train.X[0]
Trees == 0..(config.num_trees - 1)

\* outcome in fixed-point units of 1/(N*num_trees)
Unit == NumObservations(train) * config.num_trees
OutcomeValue(row) == train.y[row] * Unit

(***************************************************************************)
(* Tree (tree.h is not part of the sources; modelled from the data model   *)
(* of the specification): nodes addressed by id, each a leaf carrying a    *)
(* value or an internal node carrying (feature, threshold); deleted ids    *)
(* are recycled.                                                           *)
(***************************************************************************)
LeafNode(p, v) ==
    [cleft |-> kInvalidNodeId, cright |-> kInvalidNodeId, parent |-> p,
     split_index |-> -1, threshold |-> 0, leaf_value |-> v]

RootTree(v) == [nodes |-> (0 :> LeafNode(kInvalidNodeId, v)), deleted |-> <<>>]

IsDeleted(tree, nid) == \E k \in 1..Len(tree.deleted) : tree.deleted[k] = nid
ValidNodes(tree) == {n \in DOMAIN tree.nodes : ~IsDeleted(tree, n)}
NumValidNodes(tree) == Cardinality(ValidNodes(tree))
TreeIsLeaf(tree, nid) == tree.nodes[nid].cleft = kInvalidNodeId
LeftChild(tree, nid) == tree.nodes[nid].cleft
RightChild(tree, nid) == tree.nodes[nid].cright
GetLeaves(tree) == {n \in ValidNodes(tree) : TreeIsLeaf(tree, n)}
NumLeaves(tree) == Cardinality(GetLeaves(tree))
GetLeafParents(tree) ==
    {n \in ValidNodes(tree) : /\ ~TreeIsLeaf(tree, n)
                              /\ TreeIsLeaf(tree, LeftChild(tree, n))
                              /\ TreeIsLeaf(tree, RightChild(tree, n))}
NumLeafParents(tree) == Cardinality(GetLeafParents(tree))
InternalNodes(tree) == ValidNodes(tree) \ GetLeaves(tree)

RECURSIVE GetDepth(_, _)
GetDepth(tree, nid) ==
    IF tree.nodes[nid].parent = kInvalidNodeId THEN 0
    ELSE 1 + GetDepth(tree, tree.nodes[nid].parent)

PredictFromNode(tree, nid) == tree.nodes[nid].leaf_value
SetLeaf(tree, nid, v) == [tree EXCEPT !.nodes[nid].leaf_value = v]

AllocId(tree) ==
    IF tree.deleted # <<>> THEN tree.deleted[Len(tree.deleted)]
    ELSE Cardinality(DOMAIN tree.nodes)

AllocNode(tree, p, v) ==
    [nodes |-> [n \in (DOMAIN tree.nodes) \cup {AllocId(tree)} |->
                   IF n = AllocId(tree) THEN LeafNode(p, v) ELSE tree.nodes[n]],
     deleted |-> IF tree.deleted # <<>>
                 THEN SubSeq(tree.deleted, 1, Len(tree.deleted) - 1)
                 ELSE <<>>]

ExpandNode(tree, nid, feature, thr, lv, rv) ==
    LET l  == AllocId(tree)
        t1 == AllocNode(tree, nid, lv)
        r  == AllocId(t1)
        t2 == AllocNode(t1, nid, rv)
    IN [t2 EXCEPT !.nodes[nid] = [@ EXCEPT !.cleft = l, !.cright = r,
                                            !.split_index = feature,
                                            !.threshold = thr]]

ChangeToLeaf(tree, nid, v) ==
    [nodes |-> [tree.nodes EXCEPT ![nid] = LeafNode(tree.nodes[nid].parent, v)],
     deleted |-> tree.deleted \o <<LeftChild(tree, nid), RightChild(tree, nid)>>]

SplitTrueNumeric(fvalue, split_value) == fvalue <= split_value

RECURSIVE PredictRow(_, _, _)
\* leaf value reached by a covariate row, traversing from node nid
PredictRow(tree, nid, row) ==
    IF TreeIsLeaf(tree, nid) THEN tree.nodes[nid].leaf_value
    ELSE IF SplitTrueNumeric(row[tree.nodes[nid].split_index], tree.nodes[nid].threshold)
         THEN PredictRow(tree, LeftChild(tree, nid), row)
         ELSE PredictRow(tree, RightChild(tree, nid), row)

(***************************************************************************)
(* FeatureUnsortedPartition (partition_tracker.h declares it; its member   *)
(* functions are defined outside the sources and are modelled from         *)
(* sections 3 and 4.1 of the specification).                               *)
(***************************************************************************)
FeatureUnsortedPartition(n) ==
    [indices      |-> [k \in 0..(n - 1) |-> k],
     node_begin   |-> (0 :> 0),
     node_length  |-> (0 :> n),
     parent_nodes |-> (0 :> kInvalidNodeId),
     left_nodes   |-> (0 :> kInvalidNodeId),
     right_nodes  |-> (0 :> kInvalidNodeId),
     deleted_nodes |-> {}]

NodeBegin(part, node_id) == part.node_begin[node_id]
NodeEnd(part, node_id) == part.node_begin[node_id] + part.node_length[node_id]
NodeSize(part, node_id) == part.node_length[node_id]
IsLeaf(part, node_id) == part.left_nodes[node_id] = kInvalidNodeId
IsValidNode(part, node_id) ==
    node_id \in DOMAIN part.node_begin /\ node_id \notin part.deleted_nodes
LeftNode(part, node_id) == part.left_nodes[node_id]
RightNode(part, node_id) == part.right_nodes[node_id]
Parent(part, node_id) == part.parent_nodes[node_id]
NodeIndices(part, node_id) ==
    {part.indices[k] : k \in NodeBegin(part, node_id)..(NodeEnd(part, node_id) - 1)}

RECURSIVE Sift(_, _, _, _, _, _, _)
\* idx[lo..hi) restricted to the observations on one side of the rule, in order
Sift(idx, lo, hi, d, feature, value, side) ==
    IF lo >= hi THEN <<>>
    ELSE (IF SplitTrueNumeric(CovariateValue(d, idx[lo], feature), value) = side
          THEN <<idx[lo]>> ELSE <<>>)
         \o Sift(idx, lo + 1, hi, d, feature, value, side)

\* variant of ExpandNodeTrackingVectors: the right child starts where the left does
ExpandNodeTrackingVectorsOverlap(part, node_id, left_node_id, right_node_id, node_start_idx, num_left, num_right) ==
    LET ids == (DOMAIN part.node_begin) \cup {left_node_id, right_node_id}
        Ext(f, lval, rval) ==
            [n \in ids |-> IF n = left_node_id THEN lval
                           ELSE IF n = right_node_id THEN rval
                           ELSE f[n]]
    IN [part EXCEPT
          !.node_begin   = Ext(part.node_begin, node_start_idx, node_start_idx),
          !.node_length  = Ext(part.node_length, num_left, num_right),
          !.parent_nodes = Ext(part.parent_nodes, node_id, node_id),
          !.left_nodes   = [Ext(part.left_nodes, kInvalidNodeId, kInvalidNodeId)
                               EXCEPT ![node_id] = left_node_id],
          !.right_nodes  = [Ext(part.right_nodes, kInvalidNodeId, kInvalidNodeId)
                               EXCEPT ![node_id] = right_node_id],
          !.deleted_nodes = part.deleted_nodes \ {left_node_id, right_node_id}]

ExpandNodeTrackingVectors(part, node_id, left_node_id, right_node_id, node_start_idx, num_left, num_right) ==
    LET ids == (DOMAIN part.node_begin) \cup {left_node_id, right_node_id}
        Ext(f, lval, rval) ==
            [n \in ids |-> IF n = left_node_id THEN lval
                           ELSE IF n = right_node_id THEN rval
                           ELSE f[n]]
    IN [part EXCEPT
          !.node_begin   = Ext(part.node_begin, node_start_idx, node_start_idx + num_left),
          !.node_length  = Ext(part.node_length, num_left, num_right),
          !.parent_nodes = Ext(part.parent_nodes, node_id, node_id),
          !.left_nodes   = [Ext(part.left_nodes, kInvalidNodeId, kInvalidNodeId)
                               EXCEPT ![node_id] = left_node_id],
          !.right_nodes  = [Ext(part.right_nodes, kInvalidNodeId, kInvalidNodeId)
                               EXCEPT ![node_id] = right_node_id],
          !.deleted_nodes = part.deleted_nodes \ {left_node_id, right_node_id}]

\* variant of PartitionNode: the node's range is filled with its first index
PartitionNodeDup(part, d, node_id, left_node_id, right_node_id, feature_split, split_value) ==
    LET b     == NodeBegin(part, node_id)
        e     == NodeEnd(part, node_id)
        trues == Sift(part.indices, b, e, d, feature_split, split_value, TRUE)
        fals  == Sift(part.indices, b, e, d, feature_split, split_value, FALSE)
        both  == trues \o fals
        moved == [part EXCEPT !.indices =
                     [k \in DOMAIN part.indices |->
                        IF b <= k /\ k < e THEN both[1] ELSE part.indices[k]]]
    IN ExpandNodeTrackingVectors(moved, node_id, left_node_id, right_node_id,
                                 b, Len(trues), Len(fals))

PartitionNode(part, d, node_id, left_node_id, right_node_id, feature_split, split_value) ==
    LET b     == NodeBegin(part, node_id)
        e     == NodeEnd(part, node_id)
        trues == Sift(part.indices, b, e, d, feature_split, split_value, TRUE)
        fals  == Sift(part.indices, b, e, d, feature_split, split_value, FALSE)
        both  == trues \o fals
        moved == [part EXCEPT !.indices =
                     [k \in DOMAIN part.indices |->
                        IF b <= k /\ k < e THEN both[k - b + 1] ELSE part.indices[k]]]
    IN ExpandNodeTrackingVectors(moved, node_id, left_node_id, right_node_id,
                                 b, Len(trues), Len(fals))

ConvertLeafParentToLeaf(part, node_id) ==
    [part EXCEPT !.deleted_nodes = @ \cup {part.left_nodes[node_id], part.right_nodes[node_id]},
                 !.left_nodes[node_id] = kInvalidNodeId,
                 !.right_nodes[node_id] = kInvalidNodeId]

\* variant of PruneNodeToLeaf: the tracking vectors are left as they were
PruneNodeToLeafSkip(part, node_id) == part

PruneNodeToLeaf(part, node_id) ==
    IF IsLeaf(part, node_id) THEN part ELSE ConvertLeafParentToLeaf(part, node_id)

\* FeatureUnsortedPartition::UpdateObservationMapping(node_id, tree_id, mapper):
\* every observation in node_id's range is mapped to node_id
UpdateNodeMapping(part, node_id, map) ==
    [o \in DOMAIN map |-> IF o \in NodeIndices(part, node_id) THEN node_id ELSE map[o]]

RECURSIVE UpdateLeavesMapping(_, _, _)
UpdateLeavesMapping(part, leaves, map) ==
    IF leaves = {} THEN map
    ELSE LET leaf == CHOOSE n \in leaves : \A m \in leaves : n <= m
         IN UpdateLeavesMapping(part, leaves \ {leaf}, UpdateNodeMapping(part, leaf, map))

\* UnsortedNodeSampleTracker::UpdateObservationMapping(tree, tree_id, mapper)
UpdateObservationMapping(part, tree, map) ==
    UpdateLeavesMapping(part, GetLeaves(tree), map)

(***************************************************************************)
(* AddSplitToModel / RemoveSplitFromModel (sampler.h), on one tree: the    *)
(* tree, its partition and its row of the observation-to-leaf map.         *)
(***************************************************************************)
\* variant of AddSplitToModel: the observation-to-leaf map is not refreshed
AddSplitToModelStaleMap(d, tree, part, map, leaf_node, feature_split, split_value) ==
    LET t2 == ExpandNode(tree, leaf_node, feature_split, split_value, 0, 0)
        left_node  == LeftChild(t2, leaf_node)
        right_node == RightChild(t2, leaf_node)
        p2 == PartitionNode(part, d, leaf_node, left_node, right_node,
                            feature_split, split_value)
    IN [tree |-> t2, part |-> p2, map |-> map]

AddSplitToModel(d, tree, part, map, leaf_node, feature_split, split_value) ==
    LET t2 == ExpandNode(tree, leaf_node, feature_split, split_value, 0, 0)
        left_node  == LeftChild(t2, leaf_node)
        right_node == RightChild(t2, leaf_node)
        p2 == PartitionNode(part, d, leaf_node, left_node, right_node,
                            feature_split, split_value)
    IN [tree |-> t2, part |-> p2, map |-> UpdateObservationMapping(p2, t2, map)]

\* variant of RemoveSplitFromModel: the observation-to-leaf map is not refreshed
RemoveSplitFromModelStaleMap(d, tree, part, map, leaf_node) ==
    LET t2 == ChangeToLeaf(tree, leaf_node, 0)
        p2 == PruneNodeToLeaf(part, leaf_node)
    IN [tree |-> t2, part |-> p2, map |-> map]

RemoveSplitFromModel(d, tree, part, map, leaf_node) ==
    LET t2 == ChangeToLeaf(tree, leaf_node, 0)
        p2 == PruneNodeToLeaf(part, leaf_node)
    IN [tree |-> t2, part |-> p2, map |-> UpdateObservationMapping(p2, t2, map)]

(***************************************************************************)
(* MCMCTreeSampler (sampler.h): one grow/prune step for one tree.          *)
(***************************************************************************)
RECURSIVE VarScan(_, _, _, _, _, _, _)
\* the loop of VarSplitRange over indices_[lo..hi)
VarScan(idx, lo, hi, d, feature_split, var_min, var_max) ==
    IF lo >= hi THEN <<var_min, var_max>>
    ELSE LET feature_value == CovariateValue(d, idx[lo], feature_split)
         IN IF feature_value < var_min
            THEN VarScan(idx, lo + 1, hi, d, feature_split, feature_value, var_max)
            ELSE IF feature_value > var_max
                 THEN VarScan(idx, lo + 1, hi, d, feature_split, var_min, feature_value)
                 ELSE VarScan(idx, lo + 1, hi, d, feature_split, var_min, var_max)

VarSplitRange(d, part, leaf_split, feature_split) ==
    VarScan(part.indices, NodeBegin(part, leaf_split), NodeEnd(part, leaf_split),
            d, feature_split, DblMax, DblMin)

\* uniform_real_distribution(var_min, var_max): one representative (the even
\* number below it) of every draw in [var_min, var_max)
SplitPoints(var_min, var_max) == {v \in var_min..(var_max - 1) : v % 2 = 0}

\* integer quotients of GrowMCMC / PruneMCMC: 1/num_leaves etc. with int operands
GrowPLeaf(num_leaves) == 1 \div num_leaves
GrowPLeafParent(num_leaf_parents) == 1 \div (num_leaf_parents + 1)
PrunePLeaf(num_leaves) == 1 \div (num_leaves - 1)
PrunePLeafParent(num_leaf_parents) == 1 \div num_leaf_parents

\* class of  ... + log(p_plus) - log(p_minus) + (finite terms)  in IEEE arithmetic
LogRatioClass(p_plus, p_minus) ==
    IF p_plus = 0 /\ p_minus = 0 THEN "nan"
    ELSE IF p_plus = 0 THEN "-inf"
    ELSE IF p_minus = 0 THEN "+inf"
    ELSE "finite"

\* log_mh_ratio before thresholding: rest is the sum of its finite terms (the tree
\* prior and marginal likelihood terms), in arbitrary log units
LogRatioRests == {-2, 2}

LogMHRatio(p_plus, p_minus, rest) ==
    LET class == LogRatioClass(p_plus, p_minus)
    IN [class |-> class, value |-> IF class = "finite" THEN rest ELSE 0]

\* if (log_mh_ratio > bound) log_mh_ratio = bound;  false for NaN
ThresholdAt(log_mh_ratio, bound) ==
    IF \/ log_mh_ratio.class = "+inf"
       \/ log_mh_ratio.class = "finite" /\ log_mh_ratio.value > bound
    THEN [class |-> "finite", value |-> bound]
    ELSE log_mh_ratio

\* std::log(mh_accept(gen)) for mh_accept uniform on [0, 1): -inf or negative
LogUniforms == {[class |-> "-inf", value |-> 0]} \cup
               {[class |-> "finite", value |-> v] : v \in {-1}}

\* log_acceptance_prob <= log_mh_ratio
LogLeq(log_acceptance_prob, log_mh_ratio) ==
    CASE log_mh_ratio.class = "nan"    -> FALSE
      [] log_mh_ratio.class = "+inf"   -> TRUE
      [] log_mh_ratio.class = "-inf"   -> log_acceptance_prob.class = "-inf"
      [] log_mh_ratio.class = "finite" ->
            \/ log_acceptance_prob.class = "-inf"
            \/ log_acceptance_prob.value <= log_mh_ratio.value

Unchanged(tree, part, map) == [tree |-> tree, part |-> part, map |-> map]

\* variant of AcceptReject: the proposal is committed whatever the comparison says
AcceptRejectCommit(accept, proposal, current) == proposal

\* if (log_acceptance_prob <= log_mh_ratio) { commit the proposal } else { nothing }
AcceptReject(accept, proposal, current) == IF accept THEN proposal ELSE current

RECURSIVE NodeNonConstantScan(_, _, _, _, _, _, _)
\* the inner loop of NodeNonConstant over indices_[lo..hi) for feature j (col): both
\* branches assign var_max
NodeNonConstantScan(idx, lo, hi, d, col, var_max, var_min) ==
    IF lo >= hi THEN <<var_max, var_min>>
    ELSE LET feature_value == CovariateValue(d, idx[lo], col)
         IN IF var_max < feature_value
            THEN NodeNonConstantScan(idx, lo + 1, hi, d, col, feature_value, var_min)
            ELSE IF var_min > feature_value
                 THEN NodeNonConstantScan(idx, lo + 1, hi, d, col, feature_value, var_min)
                 ELSE NodeNonConstantScan(idx, lo + 1, hi, d, col, var_max, var_min)

\* NodeNonConstant: true at the first feature j (col) with var_max > var_min
NodeNonConstant(d, part, node_id) ==
    \E col \in DOMAIN d.X[0] :
        LET r == NodeNonConstantScan(part.indices, NodeBegin(part, node_id),
                                     NodeEnd(part, node_id), d, col, DblMin, DblMax)
        IN r[1] > r[2]

\* prob_prune_old of PruneMCMC
ProbPruneOld(non_constant_left, non_constant_right) ==
    IF non_constant_left /\ non_constant_right THEN "0.5" ELSE "1.0"

RECURSIVE AfterSplitScan(_, _, _, _, _, _, _, _)
\* the inner loop of NodesNonConstantAfterSplit over indices_[lo..hi) for feature j (col);
\* v holds var_max_left, var_min_left, var_max_right, var_min_right
AfterSplitScan(idx, lo, hi, d, col, feature_split, split_value, v) ==
    IF lo >= hi THEN v
    ELSE LET feature_value == CovariateValue(d, idx[lo], col)
             split_feature_value == CovariateValue(d, idx[lo], feature_split)
             next == IF SplitTrueNumeric(split_feature_value, split_value)
                     THEN IF v.var_max_left < feature_value
                          THEN [v EXCEPT !.var_max_left = feature_value]
                          ELSE IF v.var_min_left > feature_value
                               THEN [v EXCEPT !.var_min_left = feature_value]
                               ELSE v
                     ELSE IF v.var_max_right < feature_value
                          THEN [v EXCEPT !.var_max_right = feature_value]
                          ELSE IF v.var_min_right > feature_value
                               THEN [v EXCEPT !.var_min_right = feature_value]
                               ELSE v
         IN AfterSplitScan(idx, lo + 1, hi, d, col, feature_split, split_value, next)

\* NodesNonConstantAfterSplit (numeric rule): true at the first feature j (col) with
\* var_max > var_min on both sides
NodesNonConstantAfterSplit(d, part, leaf_split, feature_split, split_value) ==
    \E col \in DOMAIN d.X[0] :
        LET v == AfterSplitScan(part.indices, NodeBegin(part, leaf_split),
                                NodeEnd(part, leaf_split), d, col, feature_split, split_value,
                                [var_max_left |-> DblMin, var_min_left |-> DblMax,
                                 var_max_right |-> DblMin, var_min_right |-> DblMax])
        IN /\ v.var_max_left > v.var_min_left
           /\ v.var_max_right > v.var_min_right

\* what one call of GrowMCMC / PruneMCMC did: the move, the node and feature drawn,
\* the range found, the threshold drawn and the ratio compared (NoThreshold, NoRatio
\* when the move returned before that point), and the decision
NoThreshold == [drawn |-> FALSE, value |-> 0]
Drawn(split_point) == [drawn |-> TRUE, value |-> split_point]
NoRatio == [class |-> "none", value |-> 0]

MoveTrace(move, node, feature, var_min, var_max, threshold, log_mh_ratio, accept) ==
    [move |-> move, node |-> node, feature |-> feature, var_min |-> var_min,
     var_max |-> var_max, threshold |-> threshold, log_mh_ratio |-> log_mh_ratio,
     accept |-> accept, non_constant |-> FALSE, prob_prune |-> "none"]

\* a trace with the outcome of the non-constant tests of the move
NonConstantTraced(trace, non_constant, prob_prune) ==
    [trace EXCEPT !.non_constant = non_constant, !.prob_prune = prob_prune]

NoTrace == MoveTrace("none", kInvalidNodeId, -1, 0, 0, NoThreshold, NoRatio, FALSE)

Traced(out, trace) == [tree |-> out.tree, part |-> out.part, map |-> out.map, trace |-> trace]

\* the bound of "if (log_mh_ratio > 1) log_mh_ratio = 1" in GrowMCMC
GrowThreshold == 1

\* the bound of "if (log_mh_ratio > 0) log_mh_ratio = 0" in PruneMCMC
PruneThreshold == 0

\* the set of states GrowMCMC can leave tree tree_num in
GrowMCMC(d, tree, part, map) ==
    LET num_leaves == NumLeaves(tree)
        p_leaf == GrowPLeaf(num_leaves)
        p_leaf_parent == GrowPLeafParent(NumLeafParents(tree))
    IN UNION { UNION {
         LET range == VarSplitRange(d, part, leaf_chosen, var_chosen)
             var_min == range[1]
             var_max == range[2]
         IN IF var_max <= var_min
            THEN {Traced(Unchanged(tree, part, map),
                         MoveTrace("grow", leaf_chosen, var_chosen, var_min, var_max,
                                   NoThreshold, NoRatio, FALSE))}
            ELSE UNION { UNION { {
                   LET log_mh_ratio == ThresholdAt(LogMHRatio(p_leaf_parent, p_leaf, rest),
                                                   GrowThreshold)
                       accept == LogLeq(log_acceptance_prob, log_mh_ratio)
                   IN Traced(AcceptReject(accept,
                                          AddSplitToModel(d, tree, part, map, leaf_chosen,
                                                          var_chosen, split_point_chosen),
                                          Unchanged(tree, part, map)),
                             NonConstantTraced(
                                 MoveTrace("grow", leaf_chosen, var_chosen, var_min, var_max,
                                           Drawn(split_point_chosen), log_mh_ratio, accept),
                                 NodesNonConstantAfterSplit(d, part, leaf_chosen, var_chosen,
                                                            split_point_chosen),
                                 "none"))
                   : log_acceptance_prob \in LogUniforms }
                   : rest \in LogRatioRests }
                   : split_point_chosen \in SplitPoints(var_min, var_max) }
         : var_chosen \in DOMAIN d.X[0] } : leaf_chosen \in GetLeaves(tree) }

\* the set of states PruneMCMC can leave tree tree_num in
PruneMCMC(d, tree, part, map) ==
    LET p_leaf == PrunePLeaf(NumLeaves(tree))
        p_leaf_parent == PrunePLeafParent(NumLeafParents(tree))
    IN UNION { UNION { {
         LET log_mh_ratio == ThresholdAt(LogMHRatio(p_leaf, p_leaf_parent, rest),
                                         PruneThreshold)
             accept == LogLeq(log_acceptance_prob, log_mh_ratio)
         IN Traced(AcceptReject(accept,
                                RemoveSplitFromModel(d, tree, part, map, leaf_parent_chosen),
                                Unchanged(tree, part, map)),
                   LET non_constant_left == NodeNonConstant(d, part, LeftChild(tree, leaf_parent_chosen))
                       non_constant_right == NodeNonConstant(d, part, RightChild(tree, leaf_parent_chosen))
                   IN NonConstantTraced(
                          MoveTrace("prune", leaf_parent_chosen,
                                    tree.nodes[leaf_parent_chosen].split_index,
                                    0, 0, NoThreshold, log_mh_ratio, accept),
                          non_constant_left /\ non_constant_right,
                          ProbPruneOld(non_constant_left, non_constant_right)))
         : log_acceptance_prob \in LogUniforms }
         : rest \in LogRatioRests }
         : leaf_parent_chosen \in GetLeafParents(tree) }

\* variant of PrunePossible: a tree of a root and two leaves is not held prunable
PrunePossibleDeep(tree) == NumValidNodes(tree) > 3

\* variant of GrowPossible: a grow is held possible whatever the leaf sizes
GrowPossibleAlways(tree, part, min_samples_leaf) == TRUE

GrowPossible(tree, part, min_samples_leaf) ==
    \E leaf \in GetLeaves(tree) : NodeSize(part, leaf) > 2 * min_samples_leaf

PrunePossible(tree) == NumValidNodes(tree) > 1

\* variant of StepChoices: the last branch falls through to a grow
StepChoicesFallThrough(grow_possible, prune_possible) ==
    IF grow_possible /\ prune_possible THEN {0, 1}
    ELSE IF prune_possible THEN {1}
    ELSE {0}

\* step_dist: 0 = grow, 1 = prune; no choice when the call ends in Log::Fatal
StepChoices(grow_possible, prune_possible) ==
    IF grow_possible /\ prune_possible THEN {0, 1}
    ELSE IF prune_possible THEN {1}
    ELSE IF grow_possible THEN {0}
    ELSE {}

\* MCMCTreeSampler::SampleTree: the set of states one step can leave the tree in;
\* empty when the step ends in Log::Fatal
MCMCSampleTree(d, tree, part, map, min_samples_leaf) ==
    UNION { IF step_chosen = 0 THEN GrowMCMC(d, tree, part, map)
            ELSE PruneMCMC(d, tree, part, map)
            : step_chosen \in StepChoices(GrowPossible(tree, part, min_samples_leaf),
                                          PrunePossible(tree)) }

(***************************************************************************)
(* Sorted tracker (partition_tracker.h).  ArgsortRoot and the per-feature  *)
(* loop of SortedNodeSampleTracker::PartitionNode are in the sources; the  *)
(* member functions of FeaturePresortPartition are defined outside them    *)
(* and are modelled from section 4.2 of the specification.                 *)
(***************************************************************************)
RECURSIVE StableSortInto(_, _, _, _)
\* std::stable_sort of 0..n-1 by column feature_index under std::less: observation k
\* goes behind every observation already placed whose value is not greater
StableSortInto(sorted, k, d, feature_index) ==
    IF k >= NumObservations(d) THEN sorted
    ELSE LET v   == CovariateValue(d, k, feature_index)
             pos == Cardinality({q \in 1..Len(sorted) :
                        ~(v < CovariateValue(d, sorted[q], feature_index))})
         IN StableSortInto(SubSeq(sorted, 1, pos) \o <<k>> \o SubSeq(sorted, pos + 1, Len(sorted)),
                           k + 1, d, feature_index)

\* variant of ArgsortRoot: the indices are left in dataset order
ArgsortRootUnsorted(d, feature_index) == [k \in DOMAIN d.y |-> k]

ArgsortRoot(d, feature_index) == ZB(StableSortInto(<<>>, 0, d, feature_index))

FeaturePresortPartition(d, feature_index) ==
    [feature_sort_indices |-> ArgsortRoot(d, feature_index),
     node_offset_sizes |-> (0 :> [begin |-> 0, size |-> NumObservations(d)])]

SortedNodeSampleTracker(d) ==
    [f \in DOMAIN d.X[0] |-> FeaturePresortPartition(d, f)]

SortIndex(tracker, k, feature_index) == tracker[feature_index].feature_sort_indices[k]
SortedNodeBegin(tracker, node_id, feature_index) ==
    tracker[feature_index].node_offset_sizes[node_id].begin
SortedNodeEnd(tracker, node_id, feature_index) ==
    tracker[feature_index].node_offset_sizes[node_id].begin
      + tracker[feature_index].node_offset_sizes[node_id].size

AddLeftRightNodes(fp, left_begin, left_size, right_begin, right_size) ==
    LET n == Cardinality(DOMAIN fp.node_offset_sizes)
    IN [fp EXCEPT !.node_offset_sizes =
          [k \in 0..(n + 1) |->
             IF k = n THEN [begin |-> left_begin, size |-> left_size]
             ELSE IF k = n + 1 THEN [begin |-> right_begin, size |-> right_size]
             ELSE fp.node_offset_sizes[k]]]

SplitFeatureNumeric(fp, d, node_id, feature_index, split_value) ==
    LET b     == fp.node_offset_sizes[node_id].begin
        e     == b + fp.node_offset_sizes[node_id].size
        trues == Sift(fp.feature_sort_indices, b, e, d, feature_index, split_value, TRUE)
        fals  == Sift(fp.feature_sort_indices, b, e, d, feature_index, split_value, FALSE)
        both  == trues \o fals
        moved == [fp EXCEPT !.feature_sort_indices =
                     [k \in DOMAIN fp.feature_sort_indices |->
                        IF b <= k /\ k < e THEN both[k - b + 1]
                        ELSE fp.feature_sort_indices[k]]]
    IN AddLeftRightNodes(moved, b, Len(trues), b + Len(trues), Len(fals))

\* SortedNodeSampleTracker::PartitionNode: every feature's partition is split
SortedPartitionNode(tracker, d, node_id, feature_split, split_value) ==
    [f \in DOMAIN tracker |->
        SplitFeatureNumeric(tracker[f], d, node_id, feature_split, split_value)]

\* SortedNodeSampleTracker::UpdateObservationMapping(node_id, tree_id, mapper, 0)
SortedUpdateMapping(tracker, node_id, map) ==
    LET b == SortedNodeBegin(tracker, node_id, 0)
        e == SortedNodeEnd(tracker, node_id, 0)
    IN [o \in DOMAIN map |->
          IF \E k \in b..(e - 1) : SortIndex(tracker, k, 0) = o THEN node_id ELSE map[o]]

(***************************************************************************)
(* Cutpoint grid (cutpoint_candidates.h is not part of the sources;        *)
(* modelled from section 4.3 of the specification for numeric features     *)
(* with cutpoint_grid_size at least the number of distinct values: each    *)
(* distinct value of the node is its own bin).                             *)
(***************************************************************************)
RECURSIVE BinsFrom(_, _, _, _, _)
\* CalculateStrides: the bins <<start, length, value>> of sort positions lo..hi-1
BinsFrom(tracker, d, lo, hi, feature_index) ==
    IF lo >= hi THEN <<>>
    ELSE LET v   == CovariateValue(d, SortIndex(tracker, lo, feature_index), feature_index)
             run == {k \in lo..(hi - 1) :
                       \A q \in lo..k :
                          CovariateValue(d, SortIndex(tracker, q, feature_index), feature_index) = v}
             len == Cardinality(run)
         IN <<[start |-> lo, length |-> len, value |-> v]>>
            \o BinsFrom(tracker, d, lo + len, hi, feature_index)

NumCutpoints(bins) == Len(bins)
BinStartIndex(bins, c) == bins[c + 1].start
BinLength(bins, c) == bins[c + 1].length
CutpointValue(bins, c) == bins[c + 1].value

\* LeafSuffStat::SampleGreaterThan as the specification states the test
SampleGreaterThan(n, threshold) == n >= threshold

(***************************************************************************)
(* GFRTreeSampler (sampler.h).                                             *)
(***************************************************************************)
RECURSIVE CutpointLoop(_, _, _, _, _, _, _, _, _)
\* the loops of Cutpoints over features feat.. and cutpoints c.. of the node's range;
\* left_n is left_suff_stat.n, which the loops never reset.  Returns the recorded
\* candidates <<feature, cutpoint index>> in the order they are pushed.
CutpointLoop(tracker, d, node_begin, node_end, min_samples_leaf, feat, c, left_n, acc) ==
    IF feat >= NumCovariates(d) THEN acc
    ELSE LET bins == BinsFrom(tracker, d, node_begin, node_end, feat)
         IN IF c >= NumCutpoints(bins) - 1
            THEN CutpointLoop(tracker, d, node_begin, node_end, min_samples_leaf,
                              feat + 1, 0, left_n, acc)
            ELSE LET new_left == left_n + BinLength(bins, c)
                     right_n  == (node_end - node_begin) - new_left
                     valid_split == /\ SampleGreaterThan(new_left, min_samples_leaf)
                                    /\ SampleGreaterThan(right_n, min_samples_leaf)
                 IN CutpointLoop(tracker, d, node_begin, node_end, min_samples_leaf,
                                 feat, c + 1, new_left,
                                 IF valid_split
                                 THEN Append(acc, [feature |-> feat, cutpoint |-> c])
                                 ELSE acc)

Cutpoints(tracker, d, node_begin, node_end, min_samples_leaf) ==
    CutpointLoop(tracker, d, node_begin, node_end, min_samples_leaf, 0, 0, 0, <<>>)

\* std::unordered_map::insert keeps an existing entry
MapInsert(map, key, val) ==
    IF key \in DOMAIN map THEN map
    ELSE [k \in (DOMAIN map) \cup {key} |-> IF k = key THEN val ELSE map[k]]

\* variant of GFRAddSplitToModel: the children go to the back of the queue
GFRAddSplitToModelBack(d, tree, tracker, map, queue, index_map, leaf_node, node_begin, node_end, feature_split, split_value) ==
    LET bins == BinsFrom(tracker, d, node_begin, node_end, feature_split)
        split_value_numeric == CutpointValue(bins, split_value)
        left_n == Cardinality({k \in node_begin..(node_end - 1) :
                     SplitTrueNumeric(CovariateValue(d, SortIndex(tracker, k, feature_split),
                                                     feature_split),
                                      split_value_numeric)})
        t2 == ExpandNode(tree, leaf_node, feature_split, split_value_numeric, 0, 0)
        tr2 == SortedPartitionNode(tracker, d, leaf_node, feature_split, split_value_numeric)
        left_node  == LeftChild(t2, leaf_node)
        right_node == RightChild(t2, leaf_node)
        m2 == SortedUpdateMapping(tr2, right_node, SortedUpdateMapping(tr2, left_node, map))
        im2 == MapInsert(MapInsert(index_map, left_node, <<node_begin, node_begin + left_n>>),
                         right_node, <<node_begin + left_n, node_end>>)
    IN [tree |-> t2, tracker |-> tr2, map |-> m2, index_map |-> im2,
        queue |-> queue \o <<left_node, right_node>>]

\* GFRTreeSampler::AddSplitToModel, numeric branch
GFRAddSplitToModel(d, tree, tracker, map, queue, index_map, leaf_node, node_begin, node_end, feature_split, split_value) ==
    LET bins == BinsFrom(tracker, d, node_begin, node_end, feature_split)
        split_value_numeric == CutpointValue(bins, split_value)
        left_n == Cardinality({k \in node_begin..(node_end - 1) :
                     SplitTrueNumeric(CovariateValue(d, SortIndex(tracker, k, feature_split),
                                                     feature_split),
                                      split_value_numeric)})
        t2 == ExpandNode(tree, leaf_node, feature_split, split_value_numeric, 0, 0)
        tr2 == SortedPartitionNode(tracker, d, leaf_node, feature_split, split_value_numeric)
        left_node  == LeftChild(t2, leaf_node)
        right_node == RightChild(t2, leaf_node)
        m2 == SortedUpdateMapping(tr2, right_node, SortedUpdateMapping(tr2, left_node, map))
        im2 == MapInsert(MapInsert(index_map, left_node, <<node_begin, node_begin + left_n>>),
                         right_node, <<node_begin + left_n, node_end>>)
    IN [tree |-> t2, tracker |-> tr2, map |-> m2, index_map |-> im2,
        queue |-> <<left_node, right_node>> \o queue]

(***************************************************************************)
(* State after construction of StochTreeInterface and loading of the       *)
(* training data.                                                          *)
(***************************************************************************)
Methods == {"BART", "XBART"}

Configs ==
    {c \in [method : Methods, num_trees : 1..MaxTrees, num_burnin : 0..MaxBurnin,
            num_samples : 0..MaxSamples, min_samples_leaf : {1},
            save_model_draws : BOOLEAN] :
        c.num_trees * (c.num_burnin + c.num_samples) <= MaxTreeSweeps}

NoStep == <<-1, -1, "none">>
NoHist == [op |-> "none"]
AllRoot == [o \in Obs |-> 0]
NewEnsemble == [t \in Trees |-> RootTree(0)]

Init ==
    /\ config \in Configs
    /\ train \in SweepSets
    /\ prediction = Null
    /\ residual = [o \in Obs |-> OutcomeValue(o)]
    /\ model_draws = [s \in 0..(config.num_samples - 1) |-> Null]
    /\ node_tracker = Null
    /\ sorted_tracker = Null
    /\ mapper = Null
    /\ pc = "idle"
    /\ i = 0
    /\ j = 0
    /\ model_iter = 0
    /\ prev_model_iter = 0
    /\ split_queue = <<>>
    /\ node_index_map = <<>>
    /\ result = Null
    /\ accessed = {}
    /\ slot_sweep = [s \in 0..(config.num_samples - 1) |-> -1]
    /\ last_step = NoStep
    /\ hist = NoHist
    /\ sigma_log = {}
    /\ files = {}
    /\ runs = Null

(***************************************************************************)
(* SampleModel and the prologue of SampleBARTGaussianRegression /          *)
(* SampleXBARTGaussianRegression.                                          *)
(***************************************************************************)
SampleModel ==
    /\ pc = "idle"
    /\ mapper' = [t \in Trees |-> AllRoot]
    /\ node_tracker' = IF config.method = "BART"
                       THEN [t \in Trees |-> FeatureUnsortedPartition(NumObservations(train))]
                       ELSE Null
    /\ model_iter' = 0
    /\ prev_model_iter' = 0
    /\ i' = 0
    /\ pc' = IF 0 < config.num_samples + config.num_burnin THEN "sweep" ELSE "done"
    /\ UNCHANGED <<config, train, prediction, residual, model_draws, sorted_tracker, j,
                   split_queue, node_index_map, result, accessed, slot_sweep,
                   last_step, hist>>
    /\ UNCHANGED <<sigma_log, files, runs>>

\* head of one sweep: the draw slot is reset when needed; in sweep 0 every tree is
\* set to a root predicting mean(y)/num_trees and subtracted from the residual.
\* model_draws_[model_iter] outside the vector is undefined behaviour: the run
\* crashes, or the write lands past the vector's storage and the run goes on.
BeginSweep ==
    /\ pc = "sweep"
    /\ accessed' = accessed \cup {model_iter}
    /\ \/ /\ model_iter \notin DOMAIN model_draws
          /\ pc' = "undefined"
          /\ UNCHANGED <<model_draws, mapper, residual, j>>
       \/ LET reset == (i = 0) \/ (model_iter > prev_model_iter)
              d0 == IF model_iter \in DOMAIN model_draws THEN model_draws
                    ELSE model_draws @@ (model_iter :> Null)
              d1 == IF reset THEN [d0 EXCEPT ![model_iter] = NewEnsemble] ELSE d0
              mean_over_trees == SumTo(residual, NumObservations(train) - 1) \div Unit
          IN /\ IF i = 0
                THEN /\ model_draws' =
                          [d1 EXCEPT ![model_iter] =
                              [t \in Trees |-> SetLeaf(d1[model_iter][t], kRoot, mean_over_trees)]]
                     /\ mapper' = [t \in Trees |-> AllRoot]
                     /\ residual' = [o \in Obs |->
                                        SubtractTimes(residual[o], mean_over_trees,
                                                      config.num_trees)]
                ELSE /\ model_draws' = d1
                     /\ UNCHANGED <<mapper, residual>>
             /\ pc' = "addback"
             /\ j' = 0
    /\ last_step' = <<i, -1, "begin">>
    /\ UNCHANGED <<config, train, prediction, node_tracker, sorted_tracker, i, model_iter,
                   prev_model_iter, split_queue, node_index_map, result, slot_sweep, hist>>
    /\ sigma_log' = IF config.method = "XBART" /\ i = 0 /\ pc' = "addback"
                   THEN sigma_log \cup {<<i, 0>>} ELSE sigma_log
    /\ UNCHANGED <<files, runs>>

\* residual add-back of tree j of the previous draw (and, BART: the copy of the tree
\* into the new slot; XBART: the reset of tracker, tree j and its leaf map)
AddBackBART ==
    /\ pc = "addback"
    /\ config.method = "BART"
    /\ LET tree == model_draws[prev_model_iter][j]
       IN /\ residual' = [o \in Obs |->
                             ResidualAdd(residual[o], PredictFromNode(tree, mapper[j][o]))]
          /\ model_draws' = IF model_iter > prev_model_iter
                            THEN [model_draws EXCEPT ![model_iter][j] = tree]
                            ELSE model_draws
    /\ accessed' = accessed \cup {prev_model_iter, model_iter}
    /\ pc' = "sample"
    /\ last_step' = <<i, j, "addback">>
    /\ UNCHANGED <<config, train, prediction, node_tracker, sorted_tracker, mapper, i, j,
                   model_iter, prev_model_iter, split_queue, node_index_map, result,
                   slot_sweep, hist>>
    /\ UNCHANGED <<sigma_log, files, runs>>

AddBackXBART ==
    /\ pc = "addback"
    /\ config.method = "XBART"
    /\ LET tree == model_draws[prev_model_iter][j]
       IN residual' = [o \in Obs |->
                             ResidualAdd(residual[o], PredictFromNode(tree, mapper[j][o]))]
    /\ sorted_tracker' = SortedNodeSampleTracker(train)
    /\ model_draws' = [model_draws EXCEPT ![model_iter][j] = RootTree(0)]
    /\ mapper' = [mapper EXCEPT ![j] = AllRoot]
    /\ accessed' = accessed \cup {prev_model_iter, model_iter}
    /\ pc' = "sample"
    /\ last_step' = <<i, j, "addback">>
    /\ UNCHANGED <<config, train, prediction, node_tracker, i, j, model_iter,
                   prev_model_iter, split_queue, node_index_map, result, slot_sweep, hist>>
    /\ UNCHANGED <<sigma_log, files, runs>>

\* BART: model_->SampleTree, one grow/prune step of tree j
SampleTreeBART ==
    /\ pc = "sample"
    /\ config.method = "BART"
    /\ LET outs == MCMCSampleTree(train, model_draws[model_iter][j], node_tracker[j],
                                  mapper[j], config.min_samples_leaf)
       IN IF outs = {}
          THEN /\ pc' = "fatal"
               /\ UNCHANGED <<model_draws, node_tracker, mapper>>
          ELSE \E out \in outs :
                 /\ model_draws' = [model_draws EXCEPT ![model_iter][j] = out.tree]
                 /\ node_tracker' = [node_tracker EXCEPT ![j] = out.part]
                 /\ mapper' = [mapper EXCEPT ![j] = out.map]
                 /\ pc' = "leaf"
    /\ last_step' = <<i, j, "sample">>
    /\ UNCHANGED <<config, train, prediction, residual, sorted_tracker, i, j, model_iter,
                   prev_model_iter, split_queue, node_index_map, result, accessed,
                   slot_sweep, hist>>
    /\ UNCHANGED <<sigma_log, files, runs>>

\* XBART: entry of GFRTreeSampler::SampleTree, the root is queued
SampleTreeXBART ==
    /\ pc = "sample"
    /\ config.method = "XBART"
    /\ split_queue' = <<kRoot>>
    /\ node_index_map' = (kRoot :> <<0, NumObservations(train)>>)
    /\ pc' = "gfr"
    /\ last_step' = <<i, j, "sample">>
    /\ UNCHANGED <<config, train, prediction, residual, model_draws, node_tracker,
                   sorted_tracker, mapper, i, j, model_iter, prev_model_iter, result,
                   accessed, slot_sweep, hist>>
    /\ UNCHANGED <<sigma_log, files, runs>>

\* one iteration of the while loop of GFRTreeSampler::SampleTree: pop the front node
\* and SampleSplitRule on it
GFRStep ==
    /\ pc = "gfr"
    /\ split_queue # <<>>
    /\ LET curr_node_id == Head(split_queue)
           popped == Tail(split_queue)
           node_begin == node_index_map[curr_node_id][1]
           node_end == node_index_map[curr_node_id][2]
           cands == Cutpoints(sorted_tracker, train, node_begin, node_end,
                              config.min_samples_leaf)
           valid_cutpoint_count == Len(cands)
       IN \E split_chosen \in 0..valid_cutpoint_count :
            IF split_chosen = valid_cutpoint_count
            THEN /\ split_queue' = popped
                 /\ pc' = IF popped = <<>> THEN "leaf" ELSE "gfr"
                 /\ UNCHANGED <<model_draws, sorted_tracker, mapper, node_index_map>>
            ELSE LET out == GFRAddSplitToModel(train, model_draws[model_iter][j],
                                sorted_tracker, mapper[j], popped, node_index_map,
                                curr_node_id, node_begin, node_end,
                                cands[split_chosen + 1].feature,
                                cands[split_chosen + 1].cutpoint)
                 IN /\ model_draws' = [model_draws EXCEPT ![model_iter][j] = out.tree]
                    /\ sorted_tracker' = out.tracker
                    /\ mapper' = [mapper EXCEPT ![j] = out.map]
                    /\ node_index_map' = out.index_map
                    /\ split_queue' = out.queue
                    /\ pc' = "gfr"
    /\ UNCHANGED <<config, train, prediction, residual, node_tracker, i, j, model_iter,
                   prev_model_iter, result, accessed, slot_sweep, last_step, hist>>
    /\ UNCHANGED <<sigma_log, files, runs>>

\* the leaf-parameter vectors a draw can produce: one level c per draw, and leaf n
\* of the tree gets c + n, so that the leaves of one tree carry distinct values
LeafDraws(tree) == {[n \in GetLeaves(tree) |-> c + n] : c \in LeafVals}

\* model_->SampleLeafParameters: every leaf of tree j gets a fresh value
SampleLeafParameters ==
    /\ pc = "leaf"
    /\ LET tree == model_draws[model_iter][j]
       IN \E vals \in LeafDraws(tree) :
            model_draws' = [model_draws EXCEPT ![model_iter][j].nodes =
                               [n \in DOMAIN tree.nodes |->
                                  IF n \in GetLeaves(tree)
                                  THEN [tree.nodes[n] EXCEPT !.leaf_value = vals[n]]
                                  ELSE tree.nodes[n]]]
    /\ pc' = "subtract"
    /\ last_step' = <<i, j, "leaf">>
    /\ UNCHANGED <<config, train, prediction, residual, node_tracker, sorted_tracker, mapper,
                   i, j, model_iter, prev_model_iter, split_queue, node_index_map, result,
                   accessed, slot_sweep, hist>>
    /\ UNCHANGED <<sigma_log, files, runs>>

\* variant of Subtract: the next tree is sampled without its add-back
SubtractThenSample ==
    /\ pc = "subtract"
    /\ LET tree == model_draws[model_iter][j]
       IN residual' = [o \in Obs |->
                          ResidualSubtract(residual[o], PredictFromNode(tree, mapper[j][o]))]
    /\ IF config.method = "XBART" THEN pc' = "sigma" /\ j' = j
       ELSE IF j + 1 < config.num_trees THEN pc' = "sample" /\ j' = j + 1
       ELSE pc' = "endsweep" /\ j' = j
    /\ last_step' = <<i, j, "subtract">>
    /\ UNCHANGED <<config, train, prediction, model_draws, node_tracker, sorted_tracker,
                   mapper, i, model_iter, prev_model_iter, split_queue, node_index_map,
                   result, accessed, slot_sweep, hist>>
    /\ UNCHANGED <<sigma_log, files, runs>>

\* residual subtract of the new tree j
Subtract ==
    /\ pc = "subtract"
    /\ LET tree == model_draws[model_iter][j]
       IN residual' = [o \in Obs |->
                          ResidualSubtract(residual[o], PredictFromNode(tree, mapper[j][o]))]
    /\ IF config.method = "XBART" THEN pc' = "sigma" /\ j' = j
       ELSE IF j + 1 < config.num_trees THEN pc' = "addback" /\ j' = j + 1
       ELSE pc' = "endsweep" /\ j' = j
    /\ last_step' = <<i, j, "subtract">>
    /\ UNCHANGED <<config, train, prediction, model_draws, node_tracker, sorted_tracker,
                   mapper, i, model_iter, prev_model_iter, split_queue, node_index_map,
                   result, accessed, slot_sweep, hist>>
    /\ UNCHANGED <<sigma_log, files, runs>>

\* variant of SampleSigmaInLoop: sigma^2 is drawn after the last tree only
SampleSigmaLastTreeOnly ==
    /\ pc = "sigma"
    /\ IF j + 1 < config.num_trees THEN pc' = "addback" /\ j' = j + 1
       ELSE pc' = "endsweep" /\ j' = j
    /\ last_step' = <<i, j, "sigma">>
    /\ UNCHANGED <<config, train, prediction, residual, model_draws, node_tracker,
                   sorted_tracker, mapper, i, model_iter, prev_model_iter, split_queue,
                   node_index_map, result, accessed, slot_sweep, hist>>
    /\ sigma_log' = IF j + 1 < config.num_trees THEN sigma_log
                    ELSE sigma_log \cup {<<i, j + 1>>}
    /\ UNCHANGED <<files, runs>>

\* XBART: sigma^2 is drawn inside the tree loop, after tree j's subtract
SampleSigmaInLoop ==
    /\ pc = "sigma"
    /\ IF j + 1 < config.num_trees THEN pc' = "addback" /\ j' = j + 1
       ELSE pc' = "endsweep" /\ j' = j
    /\ last_step' = <<i, j, "sigma">>
    /\ UNCHANGED <<config, train, prediction, residual, model_draws, node_tracker,
                   sorted_tracker, mapper, i, model_iter, prev_model_iter, split_queue,
                   node_index_map, result, accessed, slot_sweep, hist>>
    /\ sigma_log' = sigma_log \cup {<<i, j + 1>>}
    /\ UNCHANGED <<files, runs>>

\* tail of one sweep: global parameters (BART: sigma^2; XBART: tau) are drawn and
\* stored in the draw, and model_iter advances once burn-in is over
EndSweep ==
    /\ pc = "endsweep"
    /\ slot_sweep' = [k \in DOMAIN slot_sweep |-> IF k = model_iter THEN i ELSE slot_sweep[k]]
    /\ accessed' = accessed \cup {model_iter}
    /\ IF i >= config.num_burnin
       THEN prev_model_iter' = model_iter /\ model_iter' = model_iter + 1
       ELSE UNCHANGED <<prev_model_iter, model_iter>>
    /\ i' = i + 1
    /\ pc' = IF i + 1 < config.num_samples + config.num_burnin THEN "sweep" ELSE "done"
    /\ last_step' = <<i, -1, "global">>
    /\ UNCHANGED <<config, train, prediction, residual, model_draws, node_tracker,
                   sorted_tracker, mapper, j, split_queue, node_index_map, result, hist>>
    /\ sigma_log' = IF config.method = "BART" THEN sigma_log \cup {<<i, config.num_trees>>}
                   ELSE sigma_log
    /\ files' = IF config.save_model_draws THEN files \cup {i} ELSE files
    /\ UNCHANGED runs

(***************************************************************************)
(* Prediction.                                                             *)
(***************************************************************************)
\* the model loads the prediction data, and predicts, once sampling has finished
LoadPredictionDataFromMemory ==
    /\ pc = "done"
    /\ prediction = Null
    /\ prediction' \in PredictSets
    /\ UNCHANGED <<config, train, residual, model_draws, node_tracker, sorted_tracker, mapper,
                   pc, i, j, model_iter, prev_model_iter, split_queue, node_index_map,
                   result, accessed, slot_sweep, last_step, hist>>
    /\ UNCHANGED <<sigma_log, files, runs>>

\* ModelDraw::PredictInplace (outside the sources): the ensemble's prediction, the sum
\* of the per-tree predictions, of every row of the dataset, written from offset on
EnsemblePredict(draw, row) ==
    SumTo([t \in DOMAIN draw |-> PredictRow(draw[t], kRoot, row)],
          Cardinality(DOMAIN draw) - 1)

PredictInplace(draw, data, res, offset) ==
    [k \in DOMAIN res |->
        IF k \in offset..(offset + Cardinality(DOMAIN data) - 1)
        THEN EnsemblePredict(draw, data[k - offset])
        ELSE res[k]]

RECURSIVE PredictLoopRowOuter(_, _, _, _, _, _)
\* variant of the loop of PredictSamples: the offset advances by one per draw
PredictLoopRowOuter(draws, data, num_samples, res, offset, jj) ==
    IF jj >= num_samples THEN res
    ELSE PredictLoopRowOuter(draws, data, num_samples,
                             PredictInplace(draws[jj], data, res, offset),
                             offset + 1, jj + 1)

RECURSIVE PredictLoop(_, _, _, _, _, _)
\* the loop of PredictSamples from draw j on
PredictLoop(draws, data, num_samples, res, offset, jj) ==
    IF jj >= num_samples THEN res
    ELSE PredictLoop(draws, data, num_samples,
                     PredictInplace(draws[jj], data, res, offset),
                     offset + Cardinality(DOMAIN data), jj + 1)

PredictSamplesResult(draws, data, num_samples) ==
    LET n == Cardinality(DOMAIN data)
    IN PredictLoop(draws, data, num_samples, [k \in 0..(n * num_samples - 1) |-> 0], 0, 0)

\* PredictSamples: fatal without a prediction dataset
PredictSamples ==
    /\ pc = "done"
    /\ IF prediction = Null
       THEN pc' = "fatal" /\ UNCHANGED result
       ELSE /\ result' = PredictSamplesResult(model_draws, prediction, config.num_samples)
            /\ pc' = "predicted"
    /\ last_step' = <<i, -1, "predict">>
    /\ UNCHANGED <<config, train, prediction, residual, model_draws, node_tracker,
                   sorted_tracker, mapper, i, j, model_iter, prev_model_iter, split_queue,
                   node_index_map, accessed, slot_sweep, hist>>
    /\ UNCHANGED <<sigma_log, files, runs>>

Next ==
    \/ SampleModel
    \/ BeginSweep
    \/ AddBackBART
    \/ AddBackXBART
    \/ SampleTreeBART
    \/ SampleTreeXBART
    \/ GFRStep
    \/ SampleLeafParameters
    \/ Subtract
    \/ SampleSigmaInLoop
    \/ EndSweep
    \/ LoadPredictionDataFromMemory
    \/ PredictSamples

Spec == Init /\ [][Next]_vars

(***************************************************************************)
(* Forced grow / prune moves: AddSplitToModel and RemoveSplitFromModel     *)
(* applied to any leaf / leaf parent of trees that start as roots, as      *)
(* after MCMCTreeSampler::Initialize.                                      *)
(***************************************************************************)
ForcedSplitValues == {-1, 1, 3}

InitForced ==
    /\ config \in {c \in Configs : /\ c.method = "BART" /\ c.num_burnin = 0
                                    /\ c.num_samples = 1 /\ ~c.save_model_draws}
    /\ train \in TrainSets
    /\ prediction = Null
    /\ residual = [o \in Obs |-> OutcomeValue(o)]
    /\ model_draws = (0 :> NewEnsemble)
    /\ node_tracker = [t \in Trees |-> FeatureUnsortedPartition(NumObservations(train))]
    /\ sorted_tracker = Null
    /\ mapper = [t \in Trees |-> AllRoot]
    /\ pc = "forced"
    /\ i = 0
    /\ j = 0
    /\ model_iter = 0
    /\ prev_model_iter = 0
    /\ split_queue = <<>>
    /\ node_index_map = <<>>
    /\ result = Null
    /\ accessed = {}
    /\ slot_sweep = (0 :> -1)
    /\ last_step = NoStep
    /\ hist = NoHist
    /\ sigma_log = {}
    /\ files = {}
    /\ runs = Null

EnsembleNodes(draw) ==
    SumTo([t \in DOMAIN draw |-> NumValidNodes(draw[t])], Cardinality(DOMAIN draw) - 1)

ForcedGrow ==
    /\ pc = "forced"
    /\ \E t \in Trees :
         LET tree == model_draws[0][t]
         IN /\ EnsembleNodes(model_draws[0]) + 2 <= MaxNodes
            /\ \E leaf \in GetLeaves(tree), f \in Feats, v \in ForcedSplitValues :
                 LET out == AddSplitToModel(train, tree, node_tracker[t], mapper[t], leaf, f, v)
                 IN /\ model_draws' = [model_draws EXCEPT ![0][t] = out.tree]
                    /\ node_tracker' = [node_tracker EXCEPT ![t] = out.part]
                    /\ mapper' = [mapper EXCEPT ![t] = out.map]
                    /\ hist' = [op |-> "grow", tree_num |-> t, node |-> leaf, tree |-> tree,
                                begin |-> NodeBegin(node_tracker[t], leaf),
                                end |-> NodeEnd(node_tracker[t], leaf),
                                members |-> NodeIndices(node_tracker[t], leaf),
                                map |-> mapper[t]]
    /\ UNCHANGED <<config, train, prediction, residual, sorted_tracker, pc, i, j, model_iter,
                   prev_model_iter, split_queue, node_index_map, result, accessed,
                   slot_sweep, last_step>>
    /\ UNCHANGED <<sigma_log, files, runs>>

ForcedPrune ==
    /\ pc = "forced"
    /\ \E t \in Trees :
         LET tree == model_draws[0][t]
         IN \E leaf_parent \in GetLeafParents(tree) :
              LET out == RemoveSplitFromModel(train, tree, node_tracker[t], mapper[t],
                                              leaf_parent)
              IN /\ model_draws' = [model_draws EXCEPT ![0][t] = out.tree]
                 /\ node_tracker' = [node_tracker EXCEPT ![t] = out.part]
                 /\ mapper' = [mapper EXCEPT ![t] = out.map]
                 /\ hist' = IF hist.op = "grow" /\ hist.tree_num = t /\ hist.node = leaf_parent
                            THEN [hist EXCEPT !.op = "roundtrip"]
                            ELSE NoHist
    /\ UNCHANGED <<config, train, prediction, residual, sorted_tracker, pc, i, j, model_iter,
                   prev_model_iter, split_queue, node_index_map, result, accessed,
                   slot_sweep, last_step>>
    /\ UNCHANGED <<sigma_log, files, runs>>

NextForced == ForcedGrow \/ ForcedPrune

SpecForced == InitForced /\ [][NextForced]_vars

\* C1: partition coverage: the index array of every tree's unsorted partition is a
\* permutation of 0..N-1, after any sequence of grow and prune moves.
PartitionCoverage ==
    \A t \in Trees :
      /\ DOMAIN node_tracker[t].indices = Obs
      /\ \A o \in Obs :
           Cardinality({k \in Obs : node_tracker[t].indices[k] = o}) = 1

PartitionCoverageWitness ==
    /\ pc = "forced"
    /\ hist.op = "roundtrip"
    /\ \E t \in Trees :
         /\ NumLeaves(model_draws[0][t]) >= 2
         /\ \E k \in Obs : node_tracker[t].indices[k] # k

\* C2: range disjointness: the ranges of the live leaves of every tree are pairwise
\* disjoint and cover [0, N); the children of every internal node have contiguous
\* ranges that partition the parent's range.
RangeOf(part, n) == NodeBegin(part, n)..(NodeEnd(part, n) - 1)

RangeDisjointness ==
    \A t \in Trees :
      LET tree == model_draws[0][t]
          part == node_tracker[t]
      IN /\ \A a, b \in GetLeaves(tree) :
              a # b => RangeOf(part, a) \cap RangeOf(part, b) = {}
         /\ UNION {RangeOf(part, a) : a \in GetLeaves(tree)} = Obs
         /\ \A n \in InternalNodes(tree) :
              /\ NodeBegin(part, LeftChild(tree, n)) = NodeBegin(part, n)
              /\ NodeEnd(part, LeftChild(tree, n)) = NodeBegin(part, RightChild(tree, n))
              /\ NodeEnd(part, RightChild(tree, n)) = NodeEnd(part, n)
              /\ NodeSize(part, LeftChild(tree, n)) >= 0
              /\ NodeSize(part, RightChild(tree, n)) >= 0

RangeDisjointnessWitness ==
    /\ pc = "forced"
    /\ hist.op = "grow"
    /\ \E t \in Trees :
         /\ NumLeaves(model_draws[0][t]) >= 3
         /\ \A a \in GetLeaves(model_draws[0][t]) : NodeSize(node_tracker[t], a) >= 1

\* C7: grow / prune round trip: AddSplitToModel on a leaf immediately followed by
\* RemoveSplitFromModel on the same node restores the tree structure, the node's
\* tracker range and member set, and the observation-to-leaf map.
TreeStructure(tree) ==
    [n \in ValidNodes(tree) |->
        <<tree.nodes[n].cleft, tree.nodes[n].cright, tree.nodes[n].parent,
          tree.nodes[n].split_index, tree.nodes[n].threshold>>]

RoundTrip ==
    hist.op = "roundtrip" =>
      LET t == hist.tree_num
          part == node_tracker[t]
      IN /\ TreeStructure(model_draws[0][t]) = TreeStructure(hist.tree)
         /\ GetLeaves(model_draws[0][t]) = GetLeaves(hist.tree)
         /\ NodeBegin(part, hist.node) = hist.begin
         /\ NodeEnd(part, hist.node) = hist.end
         /\ NodeIndices(part, hist.node) = hist.members
         /\ mapper[t] = hist.map

RoundTripWitness ==
    /\ hist.op = "roundtrip"
    /\ hist.node # kRoot
    /\ Cardinality(hist.members) >= 2
    /\ \E k \in hist.begin..(hist.end - 1) :
         node_tracker[hist.tree_num].indices[k] # k

(***************************************************************************)
(* One add-back / subtract cycle of the driver around a tree that the      *)
(* tree and leaf samplers leave as it was, from residuals and leaf values  *)
(* that reach the rounding range of the floating-point format.             *)
(***************************************************************************)
CycleResiduals == {1, 3, 2 ^ MantBits}
CycleLeafVals == {2, 2 ^ MantBits, 3 * (2 ^ (MantBits - 1))}

\* the sampler state around a root, or around a stump on feature 0
CycleStates ==
    LET root == [tree |-> RootTree(0),
                 part |-> FeatureUnsortedPartition(NumObservations(SweepData)),
                 map |-> [o \in DOMAIN SweepData.y |-> kRoot]]
        stump == AddSplitToModel(SweepData, root.tree, root.part, root.map, kRoot, 0, 1)
    IN {[root EXCEPT !.tree = SetLeaf(root.tree, kRoot, v)] : v \in CycleLeafVals}
       \cup {[stump EXCEPT !.tree = SetLeaf(SetLeaf(stump.tree, 1, v), 2, w)] :
                v \in CycleLeafVals, w \in CycleLeafVals}

InitCycle ==
    /\ config = [method |-> "BART", num_trees |-> 1, num_burnin |-> 1, num_samples |-> 1,
                 min_samples_leaf |-> 1, save_model_draws |-> FALSE]
    /\ train = SweepData
    /\ prediction = Null
    /\ residual \in [Obs -> CycleResiduals]
    /\ \E st \in CycleStates :
         /\ model_draws = (0 :> (0 :> st.tree))
         /\ node_tracker = (0 :> st.part)
         /\ mapper = (0 :> st.map)
    /\ sorted_tracker = Null
    /\ pc = "addback"
    /\ i = 1
    /\ j = 0
    /\ model_iter = 0
    /\ prev_model_iter = 0
    /\ split_queue = <<>>
    /\ node_index_map = <<>>
    /\ result = Null
    /\ accessed = {0}
    /\ slot_sweep = (0 :> 0)
    /\ last_step = <<1, -1, "begin">>
    /\ hist = [op |-> "cycle", residual |-> residual]
    /\ sigma_log = {}
    /\ files = {}
    /\ runs = Null

\* SampleTree rejects its proposal and SampleLeafParameters redraws the same values
KeepTree ==
    /\ pc = "sample"
    /\ pc' = "subtract"
    /\ UNCHANGED <<config, train, prediction, residual, model_draws, node_tracker,
                   sorted_tracker, mapper, i, j, model_iter, prev_model_iter, split_queue,
                   node_index_map, result, accessed, slot_sweep, last_step, hist>>
    /\ UNCHANGED <<sigma_log, files, runs>>

NextCycle == AddBackBART \/ KeepTree \/ Subtract

SpecCycle == InitCycle /\ [][NextCycle]_vars

CycleDone == hist.op = "cycle" /\ pc = "endsweep"

\* the add-back sum of observation o is exactly representable
ExactAddBack(o) ==
    LET p == PredictFromNode(model_draws[0][0], mapper[0][o])
    IN Fl(hist.residual[o] + p) = hist.residual[o] + p

\* C8 as stated: after the add-back / subtract cycle around an unchanged tree every
\* residual entry equals its value before the cycle.
ResidualIdentity ==
    CycleDone => \A o \in Obs : residual[o] = hist.residual[o]

\* C8, amended: after the add-back / subtract cycle around an unchanged tree, every
\* residual entry whose add-back sum is exactly representable equals its value before
\* the cycle.
ResidualIdentityExact ==
    CycleDone => \A o \in Obs : ExactAddBack(o) => residual[o] = hist.residual[o]

ResidualIdentityExactWitness ==
    /\ CycleDone
    /\ NumLeaves(model_draws[0][0]) = 2
    /\ \A o \in Obs : ExactAddBack(o)
    /\ \E o \in Obs : PredictFromNode(model_draws[0][0], mapper[0][o]) = 2 ^ MantBits

(***************************************************************************)
(* Properties of the sampler runs (Spec).                                  *)
(***************************************************************************)
Sampling == pc \in {"sweep", "addback", "sample", "gfr", "leaf", "subtract", "sigma",
                    "endsweep", "done", "predicted"}

\* tree k has been brought into the slot of the current sweep
Updated(k) ==
    \/ pc \in {"sample", "gfr", "leaf", "subtract", "sigma"} /\ k <= j
    \/ pc = "addback" /\ k < j
    \/ pc = "endsweep"

\* the tree the sampler state of tree k (tracker, leaf map) belongs to
CurTree(k) ==
    IF Updated(k) THEN model_draws[model_iter][k] ELSE model_draws[prev_model_iter][k]

Started == Sampling /\ accessed # {}

\* C3: leaf-map agreement: after every accepted grow or prune (BART) and every
\* committed split (XBART), the node the map stores for an observation is the unique
\* live leaf of the tree whose tracker range contains the observation.
UnsortedHolders(t, o) ==
    {l \in GetLeaves(CurTree(t)) : o \in NodeIndices(node_tracker[t], l)}

SortedHolders(f, o) ==
    {l \in GetLeaves(CurTree(j)) :
        \E k \in SortedNodeBegin(sorted_tracker, l, f)..(SortedNodeEnd(sorted_tracker, l, f) - 1) :
           SortIndex(sorted_tracker, k, f) = o}

LeafMapAgreement ==
    /\ (config.method = "BART" /\ Started) =>
          \A t \in Trees, o \in Obs : UnsortedHolders(t, o) = {mapper[t][o]}
    /\ (config.method = "XBART" /\ pc \in {"gfr", "leaf", "subtract", "sigma"}) =>
          \A f \in Feats, o \in Obs : SortedHolders(f, o) = {mapper[j][o]}

LeafMapAgreementWitness ==
    /\ config.method = "BART"
    /\ last_step = <<1, 1, "sample">>
    /\ NumLeaves(CurTree(1)) = 2
    /\ NumLeaves(CurTree(0)) = 1
    /\ \E o \in Obs : mapper[1][o] = 2

\* C4 as stated: sorted invariant: for every feature and every live node of the
\* sorted tracker, the observations of the feature's sort-index array over the node's
\* range are in ascending order of their value of that feature.
SortedOver(f, n) ==
    \A k \in SortedNodeBegin(sorted_tracker, n, f)..(SortedNodeEnd(sorted_tracker, n, f) - 2) :
       CovariateValue(train, SortIndex(sorted_tracker, k, f), f)
          <= CovariateValue(train, SortIndex(sorted_tracker, k + 1, f), f)

StepOrder ==
    LET s == last_step
        n == last_step'
    IN n # s =>
         /\ n[3] = "begin" => s[3] \in {"none", "global"} /\ n[1] = i
         /\ n[3] = "addback" =>
               /\ n[1] = s[1]
               /\ \/ n[2] = 0 /\ s[3] = "begin"
                  \/ n[2] = s[2] + 1 /\ s[3] \in {"subtract", "sigma"}
         /\ n[3] = "sample" => s = <<n[1], n[2], "addback">>
         /\ n[3] = "leaf" => s = <<n[1], n[2], "sample">>
         /\ n[3] = "subtract" => s = <<n[1], n[2], "leaf">>
         /\ n[3] = "sigma" => s = <<n[1], n[2], "subtract">>
         /\ n[3] = "global" =>
               /\ n[1] = s[1]
               /\ s[2] = config.num_trees - 1
               /\ s[3] \in {"subtract", "sigma"}

SweepOrdering == [][StepOrder]_vars

SweepOrderingWitness ==
    /\ last_step = <<1, 1, "subtract">>
    /\ config.num_trees = 2

\* C6: partial-residual invariant: when SampleTree is invoked for tree j the residual
\* of every observation is its outcome minus the predictions of all trees but j, and
\* right after tree j's subtract it is the outcome minus the predictions of all trees.
TreePrediction(k, o) == PredictFromNode(CurTree(k), mapper[k][o])

PredictionsBut(excluded, o) ==
    SumTo([k \in Trees |-> IF k \in excluded THEN 0 ELSE TreePrediction(k, o)],
          config.num_trees - 1)

Max(a, b) == IF a >= b THEN a ELSE b

DrawStorage ==
    /\ accessed \subseteq 0..(config.num_samples - 1)
    /\ pc \in {"addback", "sample", "gfr", "leaf", "subtract", "sigma", "endsweep"} =>
          model_iter = Max(0, i - config.num_burnin)
    /\ pc \in {"done", "predicted"} =>
          /\ i = config.num_burnin + config.num_samples
          /\ \A k \in 0..(config.num_samples - 1) : slot_sweep[k] = config.num_burnin + k

\* C10: prediction layout: PredictSamples returns M * num_samples values, element
\* j * M + i being the prediction of draw j for prediction row i, and it is fatal
\* without a prediction dataset.
NumPredictionRows == Cardinality(DOMAIN prediction)

PredictionLayout ==
    /\ pc = "predicted" =>
          /\ prediction # Null
          /\ DOMAIN result = 0..(NumPredictionRows * config.num_samples - 1)
          /\ \A s \in 0..(config.num_samples - 1), r \in 0..(NumPredictionRows - 1) :
                result[s * NumPredictionRows + r] = EnsemblePredict(model_draws[s], prediction[r])
    /\ (last_step[3] = "predict" /\ prediction = Null) => pc = "fatal"

PredictionLayoutWitness ==
    /\ pc = "predicted"
    /\ config.num_samples = 2
    /\ NumPredictionRows = 3
    /\ result[0] # result[1]
    /\ result[0] # result[NumPredictionRows]
    /\ result[1] # result[NumPredictionRows]

(***************************************************************************)
(* Two runs of one configuration on one dataset with one seed.  The random *)
(* engine is a counter-free congruential generator of GenMod states; every *)
(* distribution object consumes one engine output per draw, in the order   *)
(* of the calls in the code.  The quantities that the code computes from   *)
(* the residuals (marginal likelihoods, posterior moments) are functions   *)
(* of the state of the run; they are fixed here, so that an engine output  *)
(* decides each draw.                                                      *)
(***************************************************************************)
GenMod == 16

Seeds == 0..(GenMod - 1)

\* variant of NewGen: the engine is seeded from a per-run source of entropy
NewGenPerRun(seed, run) == [state |-> (seed + run) % GenMod, count |-> 0]

\* std::mt19937 seeded once per run from config.seed
NewGen(seed, run) == [state |-> seed % GenMod, count |-> 0]

\* gen(): the output of the engine, and the engine after it
Draw(gen) == gen.state
Advance(gen) == [state |-> (5 * gen.state + 3) % GenMod, count |-> gen.count + 1]

RECURSIVE SortedSeq(_)
\* the elements of a finite set of integers in ascending order
SortedSeq(S) ==
    IF S = {} THEN <<>>
    ELSE LET m == CHOOSE x \in S : \A y \in S : x <= y
         IN <<m>> \o SortedSeq(S \ {m})

\* std::discrete_distribution over n equal weights, fed engine output x
DiscreteUniform(n, x) == x % n

\* log(U) <= log_mh_ratio for U = x / GenMod; a finite ratio is taken as log(1/2)
MHAccept(class, x) ==
    CASE class = "nan"    -> FALSE
      [] class = "+inf"   -> TRUE
      [] class = "-inf"   -> x = 0
      [] class = "finite" -> 2 * x <= GenMod

Seeded(out, gen) == [tree |-> out.tree, part |-> out.part, map |-> out.map, gen |-> gen]

\* GrowMCMC with its draws taken from gen: leaf, feature, threshold, acceptance
GrowMCMCSeeded(d, tree, part, map, gen) ==
    LET leaves == SortedSeq(GetLeaves(tree))
        class == LogRatioClass(GrowPLeafParent(NumLeafParents(tree)), GrowPLeaf(NumLeaves(tree)))
        leaf_chosen == leaves[DiscreteUniform(Len(leaves), Draw(gen)) + 1]
        g1 == Advance(gen)
        var_chosen == DiscreteUniform(NumCovariates(d), Draw(g1))
        g2 == Advance(g1)
        range == VarSplitRange(d, part, leaf_chosen, var_chosen)
        var_min == range[1]
        var_max == range[2]
    IN IF var_max <= var_min THEN Seeded(Unchanged(tree, part, map), g2)
       ELSE LET points == SortedSeq(SplitPoints(var_min, var_max))
                split_point_chosen == points[DiscreteUniform(Len(points), Draw(g2)) + 1]
                g3 == Advance(g2)
                accept == MHAccept(class, Draw(g3))
                g4 == Advance(g3)
            IN IF accept
               THEN Seeded(AddSplitToModel(d, tree, part, map, leaf_chosen, var_chosen,
                                           split_point_chosen), g4)
               ELSE Seeded(Unchanged(tree, part, map), g4)

\* PruneMCMC with its draws taken from gen: leaf parent, acceptance
PruneMCMCSeeded(d, tree, part, map, gen) ==
    LET leaf_parents == SortedSeq(GetLeafParents(tree))
        class == LogRatioClass(PrunePLeaf(NumLeaves(tree)),
                               PrunePLeafParent(NumLeafParents(tree)))
        leaf_parent_chosen == leaf_parents[DiscreteUniform(Len(leaf_parents), Draw(gen)) + 1]
        g1 == Advance(gen)
        accept == MHAccept(class, Draw(g1))
        g2 == Advance(g1)
    IN IF accept
       THEN Seeded(RemoveSplitFromModel(d, tree, part, map, leaf_parent_chosen), g2)
       ELSE Seeded(Unchanged(tree, part, map), g2)

\* MCMCTreeSampler::SampleTree with step_dist fed from gen; Null when it ends in
\* Log::Fatal
MCMCSampleTreeSeeded(d, tree, part, map, min_samples_leaf, gen) ==
    LET choices == StepChoices(GrowPossible(tree, part, min_samples_leaf),
                               PrunePossible(tree))
    IN IF choices = {} THEN Null
       ELSE LET step_chosen == IF choices = {0, 1} THEN DiscreteUniform(2, Draw(gen))
                               ELSE CHOOSE s \in choices : TRUE
            IN IF step_chosen = 0 THEN GrowMCMCSeeded(d, tree, part, map, Advance(gen))
               ELSE PruneMCMCSeeded(d, tree, part, map, Advance(gen))

RECURSIVE LeafLoopSeeded(_, _, _, _)
\* the loop of SampleLeafParameters over tree_leaves from position k on: one
\* normal draw per leaf, in the order of the vector
LeafLoopSeeded(tree, tree_leaves, k, gen) ==
    IF k > Len(tree_leaves) THEN [tree |-> tree, gen |-> gen]
    ELSE LeafLoopSeeded(SetLeaf(tree, tree_leaves[k], 1 + (Draw(gen) % 3)),
                        tree_leaves, k + 1, Advance(gen))

SampleLeafParametersSeeded(tree, gen) ==
    LeafLoopSeeded(tree, SortedSeq(GetLeaves(tree)), 1, gen)

\* SampleVarianceParameter: one gamma draw
SampleVarianceParameter(gen) == [value |-> 1 + (Draw(gen) % 4), gen |-> Advance(gen)]

NoGlobals == [sigma_sq |-> 0, tau |-> 0]

ReproConfigs == {c \in Configs : ~c.save_model_draws}

Run(seed, r) ==
    [residual |-> [o \in Obs |-> OutcomeValue(o)],
     model_draws |-> [s \in 0..(config.num_samples - 1) |-> Null],
     globals |-> [s \in 0..(config.num_samples - 1) |-> NoGlobals],
     sigma_sq |-> 1,
     node_tracker |-> IF config.method = "BART"
                      THEN [t \in Trees |-> FeatureUnsortedPartition(NumObservations(train))]
                      ELSE Null,
     sorted_tracker |-> Null,
     mapper |-> [t \in Trees |-> AllRoot],
     pc |-> IF 0 < config.num_samples + config.num_burnin THEN "sweep" ELSE "done",
     i |-> 0, j |-> 0, model_iter |-> 0, prev_model_iter |-> 0,
     split_queue |-> <<>>, node_index_map |-> <<>>,
     gen |-> NewGen(seed, r)]

InitRepro ==
    /\ config \in ReproConfigs
    /\ train = SweepData
    /\ prediction = Null
    /\ residual = [o \in Obs |-> OutcomeValue(o)]
    /\ model_draws = <<>>
    /\ node_tracker = Null
    /\ sorted_tracker = Null
    /\ mapper = Null
    /\ pc = "twin"
    /\ i = 0
    /\ j = 0
    /\ model_iter = 0
    /\ prev_model_iter = 0
    /\ split_queue = <<>>
    /\ node_index_map = <<>>
    /\ result = Null
    /\ accessed = {}
    /\ slot_sweep = <<>>
    /\ last_step = NoStep
    /\ hist = NoHist
    /\ sigma_log = {}
    /\ files = {}
    /\ \E seed \in Seeds : runs = [r \in {1, 2} |-> Run(seed, r)]

\* head of one sweep of one run (BeginSweep); XBART draws sigma^2 in sweep 0
RunBeginSweep(R) ==
    LET reset == (R.i = 0) \/ (R.model_iter > R.prev_model_iter)
        d0 == IF R.model_iter \in DOMAIN R.model_draws THEN R.model_draws
              ELSE R.model_draws @@ (R.model_iter :> Null)
        g0 == IF R.model_iter \in DOMAIN R.globals THEN R.globals
              ELSE R.globals @@ (R.model_iter :> NoGlobals)
        d1 == IF reset THEN [d0 EXCEPT ![R.model_iter] = NewEnsemble] ELSE d0
        g1 == IF reset THEN [g0 EXCEPT ![R.model_iter] = NoGlobals] ELSE g0
        mean_over_trees == SumTo(R.residual, NumObservations(train) - 1) \div Unit
        sigma == SampleVarianceParameter(R.gen)
        first == [R EXCEPT
                    !.model_draws = [d1 EXCEPT ![R.model_iter] =
                        [t \in Trees |-> SetLeaf(d1[R.model_iter][t], kRoot, mean_over_trees)]],
                    !.globals = g1,
                    !.mapper = [t \in Trees |-> AllRoot],
                    !.residual = [o \in Obs |-> SubtractTimes(R.residual[o], mean_over_trees,
                                                              config.num_trees)],
                    !.sigma_sq = IF config.method = "XBART" THEN sigma.value ELSE R.sigma_sq,
                    !.gen = IF config.method = "XBART" THEN sigma.gen ELSE R.gen,
                    !.pc = "addback", !.j = 0]
        later == [R EXCEPT !.model_draws = d1, !.globals = g1, !.pc = "addback", !.j = 0]
    IN (IF R.model_iter \notin DOMAIN R.model_draws THEN {[R EXCEPT !.pc = "undefined"]} ELSE {})
       \cup {IF R.i = 0 THEN first ELSE later}

\* add-back of tree j of the previous draw (AddBackBART, AddBackXBART)
RunAddBack(R) ==
    LET tree == R.model_draws[R.prev_model_iter][R.j]
        added == [o \in Obs |-> ResidualAdd(R.residual[o],
                                            PredictFromNode(tree, R.mapper[R.j][o]))]
    IN IF config.method = "BART"
       THEN {[R EXCEPT !.residual = added,
                       !.model_draws = IF R.model_iter > R.prev_model_iter
                                       THEN [R.model_draws EXCEPT ![R.model_iter][R.j] = tree]
                                       ELSE R.model_draws,
                       !.pc = "sample"]}
       ELSE {[R EXCEPT !.residual = added,
                       !.sorted_tracker = SortedNodeSampleTracker(train),
                       !.model_draws = [R.model_draws EXCEPT ![R.model_iter][R.j] = RootTree(0)],
                       !.mapper = [R.mapper EXCEPT ![R.j] = AllRoot],
                       !.pc = "sample"]}

\* model_->SampleTree (SampleTreeBART; SampleTreeXBART queues the root)
RunSampleTree(R) ==
    IF config.method = "BART"
    THEN LET out == MCMCSampleTreeSeeded(train, R.model_draws[R.model_iter][R.j],
                                         R.node_tracker[R.j], R.mapper[R.j],
                                         config.min_samples_leaf, R.gen)
         IN IF out = Null THEN {[R EXCEPT !.pc = "fatal"]}
            ELSE {[R EXCEPT !.model_draws = [R.model_draws EXCEPT ![R.model_iter][R.j] = out.tree],
                            !.node_tracker = [R.node_tracker EXCEPT ![R.j] = out.part],
                            !.mapper = [R.mapper EXCEPT ![R.j] = out.map],
                            !.gen = out.gen,
                            !.pc = "leaf"]}
    ELSE {[R EXCEPT !.split_queue = <<kRoot>>,
                    !.node_index_map = (kRoot :> <<0, NumObservations(train)>>),
                    !.pc = "gfr"]}

\* one iteration of the while loop of GFRTreeSampler::SampleTree (GFRStep), split_dist
\* fed from gen
RunGFRStep(R) ==
    LET curr_node_id == Head(R.split_queue)
        popped == Tail(R.split_queue)
        node_begin == R.node_index_map[curr_node_id][1]
        node_end == R.node_index_map[curr_node_id][2]
        cands == Cutpoints(R.sorted_tracker, train, node_begin, node_end,
                           config.min_samples_leaf)
        valid_cutpoint_count == Len(cands)
        split_chosen == DiscreteUniform(valid_cutpoint_count + 1, Draw(R.gen))
    IN IF split_chosen = valid_cutpoint_count
       THEN {[R EXCEPT !.split_queue = popped, !.gen = Advance(R.gen),
                       !.pc = IF popped = <<>> THEN "leaf" ELSE "gfr"]}
       ELSE LET out == GFRAddSplitToModel(train, R.model_draws[R.model_iter][R.j],
                                          R.sorted_tracker, R.mapper[R.j], popped,
                                          R.node_index_map, curr_node_id, node_begin, node_end,
                                          cands[split_chosen + 1].feature,
                                          cands[split_chosen + 1].cutpoint)
            IN {[R EXCEPT !.model_draws = [R.model_draws EXCEPT ![R.model_iter][R.j] = out.tree],
                          !.sorted_tracker = out.tracker,
                          !.mapper = [R.mapper EXCEPT ![R.j] = out.map],
                          !.node_index_map = out.index_map,
                          !.split_queue = out.queue,
                          !.gen = Advance(R.gen)]}

\* model_->SampleLeafParameters
RunSampleLeafParameters(R) ==
    LET out == SampleLeafParametersSeeded(R.model_draws[R.model_iter][R.j], R.gen)
    IN {[R EXCEPT !.model_draws = [R.model_draws EXCEPT ![R.model_iter][R.j] = out.tree],
                  !.gen = out.gen, !.pc = "subtract"]}

\* subtract of the new tree j (Subtract)
RunSubtract(R) ==
    LET tree == R.model_draws[R.model_iter][R.j]
        more == R.j + 1 < config.num_trees
    IN {[R EXCEPT !.residual = [o \in Obs |-> ResidualSubtract(R.residual[o],
                                                 PredictFromNode(tree, R.mapper[R.j][o]))],
                  !.pc = IF config.method = "XBART" THEN "sigma"
                         ELSE IF more THEN "addback" ELSE "endsweep",
                  !.j = IF config.method = "BART" /\ more THEN R.j + 1 ELSE R.j]}

\* XBART: sigma^2 drawn after tree j, stored in the draw after the last tree
\* (SampleSigmaInLoop)
RunSampleSigmaInLoop(R) ==
    LET sigma == SampleVarianceParameter(R.gen)
        more == R.j + 1 < config.num_trees
    IN {[R EXCEPT !.sigma_sq = sigma.value, !.gen = sigma.gen,
                  !.globals = IF more THEN R.globals
                              ELSE [R.globals EXCEPT ![R.model_iter].sigma_sq = sigma.value],
                  !.pc = IF more THEN "addback" ELSE "endsweep",
                  !.j = IF more THEN R.j + 1 ELSE R.j]}

\* tail of one sweep (EndSweep): BART draws and stores sigma^2, XBART tau
RunEndSweep(R) ==
    LET param == SampleVarianceParameter(R.gen)
        retained == R.i >= config.num_burnin
    IN {[R EXCEPT !.sigma_sq = IF config.method = "BART" THEN param.value ELSE R.sigma_sq,
                  !.globals = IF config.method = "BART"
                              THEN [R.globals EXCEPT ![R.model_iter].sigma_sq = param.value]
                              ELSE [R.globals EXCEPT ![R.model_iter].tau = param.value],
                  !.gen = param.gen,
                  !.prev_model_iter = IF retained THEN R.model_iter ELSE R.prev_model_iter,
                  !.model_iter = IF retained THEN R.model_iter + 1 ELSE R.model_iter,
                  !.i = R.i + 1,
                  !.pc = IF R.i + 1 < config.num_samples + config.num_burnin
                         THEN "sweep" ELSE "done"]}

\* the variables of the single run, which the twin runs leave alone
single_vars == <<config, train, prediction, residual, model_draws, node_tracker, sorted_tracker, mapper, pc, i, j, model_iter, prev_model_iter, split_queue, node_index_map, result, accessed, slot_sweep, last_step, hist, sigma_log, files>>

\* both runs take the step of their common position
TwinBeginSweep ==
    /\ pc = "twin"
    /\ \A r \in {1, 2} : runs[r].pc = "sweep"
    /\ \E a \in RunBeginSweep(runs[1]), b \in RunBeginSweep(runs[2]) : runs' = (1 :> a) @@ (2 :> b)
    /\ UNCHANGED single_vars

TwinAddBack ==
    /\ pc = "twin"
    /\ \A r \in {1, 2} : runs[r].pc = "addback"
    /\ \E a \in RunAddBack(runs[1]), b \in RunAddBack(runs[2]) : runs' = (1 :> a) @@ (2 :> b)
    /\ UNCHANGED single_vars

TwinSampleTree ==
    /\ pc = "twin"
    /\ \A r \in {1, 2} : runs[r].pc = "sample"
    /\ \E a \in RunSampleTree(runs[1]), b \in RunSampleTree(runs[2]) : runs' = (1 :> a) @@ (2 :> b)
    /\ UNCHANGED single_vars

TwinGFRStep ==
    /\ pc = "twin"
    /\ \A r \in {1, 2} : runs[r].pc = "gfr"
    /\ \E a \in RunGFRStep(runs[1]), b \in RunGFRStep(runs[2]) : runs' = (1 :> a) @@ (2 :> b)
    /\ UNCHANGED single_vars

TwinSampleLeafParameters ==
    /\ pc = "twin"
    /\ \A r \in {1, 2} : runs[r].pc = "leaf"
    /\ \E a \in RunSampleLeafParameters(runs[1]), b \in RunSampleLeafParameters(runs[2]) : runs' = (1 :> a) @@ (2 :> b)
    /\ UNCHANGED single_vars

TwinSubtract ==
    /\ pc = "twin"
    /\ \A r \in {1, 2} : runs[r].pc = "subtract"
    /\ \E a \in RunSubtract(runs[1]), b \in RunSubtract(runs[2]) : runs' = (1 :> a) @@ (2 :> b)
    /\ UNCHANGED single_vars

TwinSampleSigmaInLoop ==
    /\ pc = "twin"
    /\ \A r \in {1, 2} : runs[r].pc = "sigma"
    /\ \E a \in RunSampleSigmaInLoop(runs[1]), b \in RunSampleSigmaInLoop(runs[2]) : runs' = (1 :> a) @@ (2 :> b)
    /\ UNCHANGED single_vars

TwinEndSweep ==
    /\ pc = "twin"
    /\ \A r \in {1, 2} : runs[r].pc = "endsweep"
    /\ \E a \in RunEndSweep(runs[1]), b \in RunEndSweep(runs[2]) : runs' = (1 :> a) @@ (2 :> b)
    /\ UNCHANGED single_vars

NextRepro ==
    \/ TwinBeginSweep
    \/ TwinAddBack
    \/ TwinSampleTree
    \/ TwinGFRStep
    \/ TwinSampleLeafParameters
    \/ TwinSubtract
    \/ TwinSampleSigmaInLoop
    \/ TwinEndSweep

SpecRepro == InitRepro /\ [][NextRepro]_vars

\* the draw slots of the vector model_draws_ of a run
DrawSlots == 0..(config.num_samples - 1)

MaxMinSamplesLeaf == 2

StepSets == {SweepData, PairData, ZeroData}

InitStep ==
    /\ config \in [method : {"BART"}, num_trees : 1..MaxTrees, num_burnin : {0},
                   num_samples : {1}, min_samples_leaf : 1..MaxMinSamplesLeaf,
                   save_model_draws : {FALSE}]
    /\ train \in StepSets
    /\ prediction = Null
    /\ residual = [o \in Obs |-> OutcomeValue(o)]
    /\ model_draws = (0 :> NewEnsemble)
    /\ node_tracker = [t \in Trees |-> FeatureUnsortedPartition(NumObservations(train))]
    /\ sorted_tracker = Null
    /\ mapper = [t \in Trees |-> AllRoot]
    /\ pc = "step"
    /\ i = 0
    /\ j = 0
    /\ model_iter = 0
    /\ prev_model_iter = 0
    /\ split_queue = <<>>
    /\ node_index_map = <<>>
    /\ result = Null
    /\ accessed = {}
    /\ slot_sweep = (0 :> -1)
    /\ last_step = NoStep
    /\ hist = NoHist
    /\ sigma_log = {}
    /\ files = {}
    /\ runs = Null

\* the ensemble, the tracker and the observation-to-leaf map
Snapshot == [draw |-> model_draws[0], tracker |-> node_tracker, mapper |-> mapper]

\* one call of SampleTree with tree_num = t
StepSampleTree ==
    /\ pc = "step"
    /\ \E t \in Trees :
         LET outs == MCMCSampleTree(train, model_draws[0][t], node_tracker[t], mapper[t],
                                    config.min_samples_leaf)
         IN IF outs = {}
            THEN /\ pc' = "fatal"
                 /\ hist' = [op |-> "step", tree_num |-> t, fatal |-> TRUE, trace |-> NoTrace,
                             before |-> Snapshot]
                 /\ UNCHANGED <<model_draws, node_tracker, mapper>>
            ELSE \E out \in outs :
                 /\ model_draws' = [model_draws EXCEPT ![0][t] = out.tree]
                 /\ node_tracker' = [node_tracker EXCEPT ![t] = out.part]
                 /\ mapper' = [mapper EXCEPT ![t] = out.map]
                 /\ hist' = [op |-> "step", tree_num |-> t, fatal |-> FALSE,
                             trace |-> out.trace, before |-> Snapshot]
                 /\ pc' = "step"
    /\ UNCHANGED <<config, train, prediction, residual, sorted_tracker, i, j, model_iter,
                   prev_model_iter, split_queue, node_index_map, result, accessed,
                   slot_sweep, last_step, sigma_log, files, runs>>

NextStep == StepSampleTree

SpecStep == InitStep /\ [][NextStep]_vars

\* the last call of SampleTree, its tree before the call and that tree's partition
Stepped == hist.op = "step"
TreeBefore == hist.before.draw[hist.tree_num]
PartBefore == hist.before.tracker[hist.tree_num]
SameAsBefore == Snapshot = hist.before

\* some leaf of the tree held more than 2*min_samples_leaf observations
SomeLeafLarge ==
    \E leaf \in GetLeaves(TreeBefore) :
        NodeSize(PartBefore, leaf) > 2 * config.min_samples_leaf

\* C12: a call of SampleTree on a tree without a leaf of more than
\* 2*min_samples_leaf observations and without a leaf parent ends in the fatal error;
\* no move is executed and the ensemble, the tracker and the leaf map are as before
NothingToDo ==
    (Stepped /\ ~SomeLeafLarge /\ GetLeafParents(TreeBefore) = {}) =>
        /\ hist.fatal /\ pc = "fatal"
        /\ hist.trace.move = "none"
        /\ SameAsBefore

NothingToDoWitness ==
    /\ Stepped /\ ~SomeLeafLarge /\ GetLeafParents(TreeBefore) = {}
    /\ hist.fatal
    /\ NumObservations(train) = 2 * config.min_samples_leaf

\* SampleTree of the BART driver has ended in the fatal error
SampleTreeFatal == pc = "fatal" /\ last_step[3] = "sample"

\* C13 as stated: on every dataset with N >= 2*min_samples_leaf no BART sweep that
\* starts from root-only trees runs into the nothing-to-do fatal error
NothingToDoUnreachable ==
    (config.method = "BART" /\ NumObservations(train) >= 2 * config.min_samples_leaf)
        => ~SampleTreeFatal

\* C13: on every dataset with N > 2*min_samples_leaf no BART sweep that starts from
\* root-only trees runs into the nothing-to-do fatal error: a root holds more than
\* 2*min_samples_leaf observations and every other tree has a leaf parent
NothingToDoUnreachableStrict ==
    (config.method = "BART" /\ NumObservations(train) > 2 * config.min_samples_leaf)
        => ~SampleTreeFatal

NothingToDoUnreachableStrictWitness ==
    /\ config.method = "BART" /\ NumObservations(train) > 2 * config.min_samples_leaf
    /\ pc = "leaf" /\ last_step = <<1, 0, "sample">>
    /\ ~GrowPossible(model_draws[model_iter][0], node_tracker[0], config.min_samples_leaf)
    /\ NumLeaves(model_draws[model_iter][0]) = 2


\* C14 as stated: in both drivers every draw of the residual variance comes after
\* all num_trees trees of its sweep have been updated
VarianceAfterTrees ==
    Sampling => \A e \in sigma_log : e[2] = config.num_trees

\* C14: the BART driver draws the residual variance once per sweep, after all
\* num_trees trees of the sweep have been updated; the XBART driver draws it after
\* the update of every tree of every sweep, and in sweep 0 once more before the
\* first tree
VariancePosition ==
    Sampling =>
        /\ config.method = "BART" =>
              /\ \A e \in sigma_log : e[2] = config.num_trees
              /\ \A s \in 0..(i - 1) : <<s, config.num_trees>> \in sigma_log
        /\ config.method = "XBART" =>
              /\ \A e \in sigma_log : e[2] \in 0..config.num_trees /\ (e[2] = 0 => e[1] = 0)
              /\ \A s \in 0..(i - 1) : \A k \in 1..config.num_trees : <<s, k>> \in sigma_log
              /\ i > 0 => <<0, 0>> \in sigma_log

VariancePositionWitness ==
    /\ config.method = "XBART" /\ config.num_trees = 2
    /\ pc = "done" /\ i = 2
    /\ <<1, 1>> \in sigma_log

\* the sweeps after burn-in
RetainedSweeps == config.num_burnin..(config.num_burnin + config.num_samples - 1)

\* C15: with save_model_draws a run writes no file for a burn-in sweep and, once
\* finished, has written exactly one file per retained sweep, num_samples in all
PersistedDraws ==
    (Sampling /\ config.save_model_draws) =>
        /\ files \subseteq RetainedSweeps
        /\ pc = "done" => (files = RetainedSweeps /\ Cardinality(files) = config.num_samples)

\* the tree had a leaf parent before the call
SomeLeafParent == GetLeafParents(TreeBefore) # {}

\* C16: SampleTree attempts a grow only if some leaf holds more than
\* 2*min_samples_leaf observations and a prune only if the tree has a leaf parent;
\* when one of the two moves alone is available it is the move performed; and
\* NumValidNodes() > 1 holds of a tree exactly when it has a leaf parent
MoveAvailability ==
    /\ pc \in {"step", "fatal"} =>
          \A t \in Trees : (NumValidNodes(model_draws[0][t]) > 1)
                              <=> (GetLeafParents(model_draws[0][t]) # {})
    /\ (Stepped /\ ~hist.fatal) =>
          /\ hist.trace.move \in {"grow", "prune"}
          /\ hist.trace.move = "grow" => SomeLeafLarge
          /\ hist.trace.move = "prune" => SomeLeafParent
          /\ (SomeLeafLarge /\ ~SomeLeafParent) => hist.trace.move = "grow"
          /\ (~SomeLeafLarge /\ SomeLeafParent) => hist.trace.move = "prune"

MoveAvailabilityWitness ==
    /\ Stepped /\ ~hist.fatal
    /\ ~SomeLeafLarge /\ SomeLeafParent
    /\ hist.trace.move = "prune" /\ hist.trace.accept

\* the values of the drawn feature over the observations of the drawn leaf, before
\* the call
LeafValues ==
    {CovariateValue(train, PartBefore.indices[k], hist.trace.feature) :
        k \in NodeBegin(PartBefore, hist.trace.node)..(NodeEnd(PartBefore, hist.trace.node) - 1)}

\* the last call was a grow
GrowStepped == Stepped /\ ~hist.fatal /\ hist.trace.move = "grow"

\* C17: a grow on a leaf whose observations all have the same value of the drawn
\* feature, whatever that value, is aborted: no threshold is drawn and the tree,
\* the tracker and the observation-to-leaf map are as before the call.
ConstantFeatureAbort ==
    (GrowStepped /\ Cardinality(LeafValues) = 1) =>
        /\ ~hist.trace.threshold.drawn
        /\ SameAsBefore

\* C18: the range found by a grow is the minimum and the maximum of the drawn
\* feature over the observations of the drawn leaf, whatever their order and sign;
\* with two distinct values the grow is not aborted and its threshold lies between
\* the two.
SplitRange ==
    GrowStepped =>
        LET lowest == CHOOSE v \in LeafValues : \A w \in LeafValues : v <= w
            highest == CHOOSE v \in LeafValues : \A w \in LeafValues : w <= v
        IN /\ hist.trace.var_min = lowest
           /\ hist.trace.var_max = highest
           /\ Cardinality(LeafValues) >= 2 =>
                 /\ hist.trace.threshold.drawn
                 /\ lowest <= hist.trace.threshold.value
                 /\ hist.trace.threshold.value <= highest

\* the last call reached its accept/reject comparison
Compared == Stepped /\ ~hist.fatal /\ hist.trace.log_mh_ratio.class # "none"

\* C19: in a grow and in a prune the ratio compared against log U is never greater
\* than 0.
MHClipping ==
    Compared =>
        /\ hist.trace.log_mh_ratio.class # "+inf"
        /\ hist.trace.log_mh_ratio.class = "finite" => hist.trace.log_mh_ratio.value <= 0

\* tree t, its partition and its row of the observation-to-leaf map are as before
\* the last call
TreeUntouched(t) ==
    /\ model_draws[0][t] = hist.before.draw[t]
    /\ node_tracker[t] = hist.before.tracker[t]
    /\ mapper[t] = hist.before.mapper[t]

\* C20: a rejected grow or prune leaves the trees, the tracker and the
\* observation-to-leaf map as they were; an accepted one changes the tree, the
\* partition and the map row of tree tree_num in the same step, and nothing of any
\* other tree.
AcceptRejectEffect ==
    Compared =>
        /\ ~hist.trace.accept => SameAsBefore
        /\ hist.trace.accept =>
              /\ model_draws[0][hist.tree_num] # hist.before.draw[hist.tree_num]
              /\ node_tracker[hist.tree_num] # hist.before.tracker[hist.tree_num]
              /\ mapper[hist.tree_num] # hist.before.mapper[hist.tree_num]
              /\ \A t \in Trees \ {hist.tree_num} : TreeUntouched(t)

\* an accepted prune of one tree while the other tree is split
AcceptRejectEffectWitness ==
    /\ Compared
    /\ hist.trace.accept
    /\ hist.trace.move = "prune"
    /\ \E t \in Trees \ {hist.tree_num} : NumValidNodes(model_draws[0][t]) > 1

\* C21: the selection probabilities that enter the ratio of a grow or a prune are
\* strictly positive for the tree the move starts from, so the compared ratio is a
\* finite number.
SelectionProbabilities ==
    Compared =>
        /\ hist.trace.move = "grow" =>
              /\ GrowPLeaf(NumLeaves(TreeBefore)) > 0
              /\ GrowPLeafParent(NumLeafParents(TreeBefore)) > 0
        /\ hist.trace.move = "prune" =>
              /\ PrunePLeaf(NumLeaves(TreeBefore)) > 0
              /\ PrunePLeafParent(NumLeafParents(TreeBefore)) > 0
        /\ hist.trace.log_mh_ratio.class = "finite"

\* some feature takes two or more distinct values over the observations of a node
\* of the tree the last call started from
TwoValues(node_id) ==
    \E f \in Feats :
        Cardinality({CovariateValue(train, o, f) : o \in NodeIndices(PartBefore, node_id)}) >= 2

\* the last call was a prune that reached its accept/reject comparison
PruneStepped == Compared /\ hist.trace.move = "prune"

\* C22: NodeNonConstant is true of each child of the pruned leaf parent exactly
\* when some feature takes two or more distinct values in it, and prob_prune_old
\* is 0.5 exactly when that is so of both children.
NodeNonConstantResult ==
    PruneStepped =>
        LET left_node == LeftChild(TreeBefore, hist.trace.node)
            right_node == RightChild(TreeBefore, hist.trace.node)
        IN /\ NodeNonConstant(train, PartBefore, left_node) <=> TwoValues(left_node)
           /\ NodeNonConstant(train, PartBefore, right_node) <=> TwoValues(right_node)
           /\ (hist.trace.prob_prune = "0.5") <=> (TwoValues(left_node) /\ TwoValues(right_node))

\* some feature takes two or more distinct values among the observations of the
\* grown leaf that the drawn rule routes left, and two or more among those it
\* routes right
TwoValuesBothSides ==
    LET side(is_left) == {o \in NodeIndices(PartBefore, hist.trace.node) : SplitTrueNumeric(CovariateValue(train, o, hist.trace.feature), hist.trace.threshold.value) = is_left}
    IN \E f \in Feats :
          /\ Cardinality({CovariateValue(train, o, f) : o \in side(TRUE)}) >= 2
          /\ Cardinality({CovariateValue(train, o, f) : o \in side(FALSE)}) >= 2

\* C23: NodesNonConstantAfterSplit is true of a proposed split exactly when some
\* feature takes two or more distinct values on the left and two or more on the
\* right of it, whatever the order and the sign of the values.
AfterSplitResult ==
    (GrowStepped /\ Compared) => (hist.trace.non_constant <=> TwoValuesBothSides)

(***************************************************************************)
(* Grow-from-root runs of one tree: GFRTreeSampler::Reset followed by      *)
(* GFRTreeSampler::SampleTree, one iteration of its while loop per step,   *)
(* with the popped node, the queue it left behind and the tracker it      *)
(* worked on recorded in hist.                                             *)
(***************************************************************************)
\* four observations: a column with ties and an increasing column
TiedData == MkData(<< <<0, 2>>, <<2, 4>>, <<2, 6>>, <<2, 8>> >>, <<1, 0, 2, 1>>)

GFRSets == {SweepData, ZeroData, TiedData}

\* the rows of bin c of feature feat, in the order the k loop of Cutpoints visits them
BinRows(tracker, bins, c, feat) ==
    [k \in 1..BinLength(bins, c) |-> SortIndex(tracker, BinStartIndex(bins, c) + k - 1, feat)]

RECURSIVE CutpointEvalLoop(_, _, _, _, _, _, _, _, _)
\* the loops of Cutpoints with every evaluation kept: left_rows are the rows
\* left_suff_stat has been incremented with since its declaration before the
\* feature loop, right_n is the count of right_suff_stat after SubtractSuffStat
CutpointEvalLoop(tracker, d, node_begin, node_end, min_samples_leaf, feat, c, left_rows, acc) ==
    IF feat >= NumCovariates(d) THEN acc
    ELSE LET bins == BinsFrom(tracker, d, node_begin, node_end, feat)
         IN IF c >= NumCutpoints(bins) - 1
            THEN CutpointEvalLoop(tracker, d, node_begin, node_end, min_samples_leaf,
                                  feat + 1, 0, left_rows, acc)
            ELSE LET new_left == left_rows \o BinRows(tracker, bins, c, feat)
                     left_n   == Len(new_left)
                     right_n  == (node_end - node_begin) - left_n
                     valid_split == /\ SampleGreaterThan(left_n, min_samples_leaf)
                                    /\ SampleGreaterThan(right_n, min_samples_leaf)
                 IN CutpointEvalLoop(tracker, d, node_begin, node_end, min_samples_leaf,
                                     feat, c + 1, new_left,
                                     Append(acc, [feature |-> feat, cutpoint |-> c,
                                                  left_rows |-> new_left, left_n |-> left_n,
                                                  right_n |-> right_n,
                                                  valid_split |-> valid_split]))

CutpointEvaluations(tracker, d, node_begin, node_end, min_samples_leaf) ==
    CutpointEvalLoop(tracker, d, node_begin, node_end, min_samples_leaf, 0, 0, <<>>, <<>>)

\* variant of NoSplitQueue: the node goes back to the end of the queue
NoSplitQueueRetry(popped, curr_node_id) == Append(popped, curr_node_id)

\* "No split" sampled: nothing is added to the split queue
NoSplitQueue(popped, curr_node_id) == popped

InitGFR ==
    /\ config \in [method : {"XBART"}, num_trees : {1}, num_burnin : {0}, num_samples : {1},
                   min_samples_leaf : 1..MaxMinSamplesLeaf, save_model_draws : {FALSE}]
    /\ train \in GFRSets
    /\ prediction = Null
    /\ residual = [o \in Obs |-> OutcomeValue(o)]
    /\ model_draws = (0 :> NewEnsemble)
    /\ node_tracker = Null
    /\ sorted_tracker = SortedNodeSampleTracker(train)
    /\ mapper = [t \in Trees |-> AllRoot]
    /\ pc = "reset"
    /\ i = 0
    /\ j = 0
    /\ model_iter = 0
    /\ prev_model_iter = 0
    /\ split_queue = <<>>
    /\ node_index_map = <<>>
    /\ result = Null
    /\ accessed = {}
    /\ slot_sweep = (0 :> -1)
    /\ last_step = NoStep
    /\ hist = NoHist
    /\ sigma_log = {}
    /\ files = {}
    /\ runs = Null

\* GFRTreeSampler::Reset: fresh presorted tracker, root-only tree, all rows at node 0
GFRReset ==
    /\ pc = "grown"
    /\ sorted_tracker' = SortedNodeSampleTracker(train)
    /\ model_draws' = [model_draws EXCEPT ![0][0] = RootTree(0)]
    /\ mapper' = [mapper EXCEPT ![0] = AllRoot]
    /\ pc' = "reset"
    /\ hist' = NoHist
    /\ UNCHANGED <<config, train, prediction, residual, node_tracker, i, j, model_iter,
                   prev_model_iter, split_queue, node_index_map, result, accessed,
                   slot_sweep, last_step, sigma_log, files, runs>>

\* entry of GFRTreeSampler::SampleTree: the root is queued with the range [0, n)
GFREnter ==
    /\ pc = "reset"
    /\ split_queue' = <<kRoot>>
    /\ node_index_map' = (kRoot :> <<0, NumObservations(train)>>)
    /\ pc' = "gfr"
    /\ UNCHANGED <<config, train, prediction, residual, model_draws, node_tracker,
                   sorted_tracker, mapper, i, j, model_iter, prev_model_iter, result,
                   accessed, slot_sweep, last_step, hist, sigma_log, files, runs>>

\* one iteration of the while loop of GFRTreeSampler::SampleTree: the front node is
\* popped and SampleSplitRule draws "no split" (index valid_cutpoint_count) or one
\* of the recorded candidates; the loop ends when the queue is empty
GFRIterate ==
    /\ pc = "gfr"
    /\ split_queue # <<>>
    /\ LET curr_node_id == Head(split_queue)
           popped == Tail(split_queue)
           node_begin == node_index_map[curr_node_id][1]
           node_end == node_index_map[curr_node_id][2]
           seen == [op |-> "gfr", node |-> curr_node_id, waiting |-> popped,
                    node_begin |-> node_begin, node_end |-> node_end,
                    tracker |-> sorted_tracker]
       IN \/ /\ split_queue' = NoSplitQueue(popped, curr_node_id)
             /\ pc' = IF NoSplitQueue(popped, curr_node_id) = <<>> THEN "grown" ELSE "gfr"
             /\ hist' = seen @@ [committed |-> FALSE]
             /\ UNCHANGED <<model_draws, sorted_tracker, mapper, node_index_map>>
          \/ LET cands == Cutpoints(sorted_tracker, train, node_begin, node_end,
                                    config.min_samples_leaf)
                 valid_cutpoint_count == Len(cands)
             IN \E split_chosen \in 0..(valid_cutpoint_count - 1) :
                  LET out == GFRAddSplitToModel(train, model_draws[0][0],
                                 sorted_tracker, mapper[0], popped, node_index_map,
                                 curr_node_id, node_begin, node_end,
                                 cands[split_chosen + 1].feature,
                                 cands[split_chosen + 1].cutpoint)
                  IN /\ model_draws' = [model_draws EXCEPT ![0][0] = out.tree]
                     /\ sorted_tracker' = out.tracker
                     /\ mapper' = [mapper EXCEPT ![0] = out.map]
                     /\ node_index_map' = out.index_map
                     /\ split_queue' = out.queue
                     /\ hist' = seen @@ [committed |-> TRUE]
                     /\ pc' = "gfr"
    /\ UNCHANGED <<config, train, prediction, residual, node_tracker, i, j, model_iter,
                   prev_model_iter, result, accessed, slot_sweep, last_step, sigma_log,
                   files, runs>>

NextGFR ==
    \/ GFRReset
    \/ GFREnter
    \/ GFRIterate

SpecGFR == InitGFR /\ [][NextGFR]_vars

\* the while loop of SampleTree runs without suspension: an iteration that can be
\* taken is taken
SpecGFRLive == SpecGFR /\ WF_vars(GFRIterate)

\* the last step was an iteration of the loop; the tree it worked on
Iterated == hist.op = "gfr"
GFRTree == model_draws[0][0]

\* what Cutpoints evaluated and recorded for the node the last iteration popped
Evaluated == CutpointEvaluations(hist.tracker, train, hist.node_begin, hist.node_end, config.min_samples_leaf)
Recorded == Cutpoints(hist.tracker, train, hist.node_begin, hist.node_end, config.min_samples_leaf)

\* C24: the queue is served breadth-first: when a node is popped, no node still
\* waiting in the queue is nearer to the root, and the children of a committed
\* split go to the back of the queue.
BreadthFirst ==
    Iterated =>
        /\ \A k \in 1..Len(hist.waiting) :
              GetDepth(GFRTree, hist.waiting[k]) >= GetDepth(GFRTree, hist.node)
        /\ hist.committed =>
              split_queue = hist.waiting \o <<LeftChild(GFRTree, hist.node),
                                              RightChild(GFRTree, hist.node)>>

\* the queue is served depth-first, left child first: the children of a committed
\* split go to the front of the queue, so when a node is popped no node still
\* waiting is farther from the root than it.
DepthFirst ==
    Iterated =>
        /\ \A k \in 1..Len(hist.waiting) :
              GetDepth(GFRTree, hist.waiting[k]) <= GetDepth(GFRTree, hist.node)
        /\ hist.committed =>
              split_queue = <<LeftChild(GFRTree, hist.node), RightChild(GFRTree, hist.node)>>
                               \o hist.waiting

\* a node at depth 2 is popped and split while a node at depth 1 is waiting
DepthFirstWitness ==
    /\ Iterated
    /\ hist.committed
    /\ GetDepth(GFRTree, hist.node) = 2
    /\ \E k \in 1..Len(hist.waiting) : GetDepth(GFRTree, hist.waiting[k]) = 1

\* the rows of the popped node in bins 0..c of feature feat, by the tracker the
\* iteration started from
RowsUpTo(feat, c) ==
    LET bins == BinsFrom(hist.tracker, train, hist.node_begin, hist.node_end, feat)
    IN {SortIndex(hist.tracker, k, feat) : k \in hist.node_begin..(BinStartIndex(bins, c + 1) - 1)}

\* C25: for every feature and every cutpoint evaluated by Cutpoints, the left
\* statistic is accumulated over exactly the node's rows in bins 0..c of that
\* feature, each once, and the left and right counts are non-negative and add up to
\* the size of the node.
LeftStatistics ==
    Iterated =>
        \A k \in 1..Len(Evaluated) :
            LET e == Evaluated[k]
            IN /\ {e.left_rows[q] : q \in 1..Len(e.left_rows)} = RowsUpTo(e.feature, e.cutpoint)
               /\ e.left_n = Cardinality(RowsUpTo(e.feature, e.cutpoint))
               /\ e.left_n >= 0
               /\ e.right_n >= 0
               /\ e.left_n + e.right_n = hist.node_end - hist.node_begin

\* the number of rows of child node n of the split the last iteration committed
ChildSize(n) == node_index_map[n][2] - node_index_map[n][1]

\* C26: a cutpoint of the popped node is recorded as a candidate exactly when both
\* of its sides hold at least min_samples_leaf rows of the node; a committed split
\* gives each child at least min_samples_leaf rows, and a node without such a
\* cutpoint stays a leaf.
MinLeafXBART ==
    Iterated =>
        /\ \A f \in Feats :
              LET bins == BinsFrom(hist.tracker, train, hist.node_begin, hist.node_end, f)
              IN \A c \in 0..(NumCutpoints(bins) - 2) :
                    LET left_n == Cardinality(RowsUpTo(f, c))
                        right_n == (hist.node_end - hist.node_begin) - left_n
                    IN (\E k \in 1..Len(Recorded) : Recorded[k] = [feature |-> f, cutpoint |-> c])
                          <=> (left_n >= config.min_samples_leaf /\ right_n >= config.min_samples_leaf)
        /\ hist.committed =>
              /\ ChildSize(LeftChild(GFRTree, hist.node)) >= config.min_samples_leaf
              /\ ChildSize(RightChild(GFRTree, hist.node)) >= config.min_samples_leaf
        /\ Recorded = <<>> => ~hist.committed

SameStructure(t) ==
    LET tree == model_draws[0][t]
        part == node_tracker[t]
    IN /\ \A n \in ValidNodes(tree) :
            /\ IsValidNode(part, n)
            /\ IsLeaf(part, n) <=> TreeIsLeaf(tree, n)
            /\ ~TreeIsLeaf(tree, n) =>
                 /\ LeftNode(part, n) = LeftChild(tree, n)
                 /\ RightNode(part, n) = RightChild(tree, n)
       /\ \A n \in DOMAIN part.node_begin : IsValidNode(part, n) => n \in ValidNodes(tree)

\* C28: after any sequence of grow and prune moves applied through
\* AddSplitToModel and RemoveSplitFromModel, every tree and its unsorted
\* tracker have the same live node ids, a node id is a leaf in the tracker
\* exactly when it is a leaf in the tree, and the tracker's left and right
\* child ids of every internal node are the tree's LeftChild and RightChild
TreeTrackerSync == \A t \in Trees : SameStructure(t)

\* a grow that reused the node ids released by an earlier prune, below a
\* split that was kept
TreeTrackerSyncWitness ==
    /\ hist.op = "grow"
    /\ hist.tree.deleted # <<>>
    /\ NumValidNodes(hist.tree) >= 3
    /\ NumValidNodes(model_draws[0][hist.tree_num]) >= 5
    /\ SameStructure(hist.tree_num)

\* C29: in BART, starting from root-only trees over at least
\* min_samples_leaf observations, after any sequence of steps every leaf of
\* every tree holds at least min_samples_leaf observations, and no accepted
\* grow creates an empty child
MinLeafBART ==
    /\ \A t \in Trees : \A n \in GetLeaves(model_draws[0][t]) :
          NodeSize(node_tracker[t], n) >= config.min_samples_leaf
    /\ (hist.op = "step" /\ hist.trace.move = "grow" /\ hist.trace.accept) =>
          LET tree == model_draws[0][hist.tree_num]
              part == node_tracker[hist.tree_num]
          IN /\ NodeSize(part, LeftChild(tree, hist.trace.node)) > 0
             /\ NodeSize(part, RightChild(tree, hist.trace.node)) > 0

(***************************************************************************)
(* Variance samplers (sampler.h): posterior parameters of the inverse      *)
(* gamma draws, as functions of the prior (a, b), the residual and the     *)
(* forest.  a and b are integers and the results are kept doubled, so that *)
(* a/2.0 and b/2.0 stay exact.                                             *)
(***************************************************************************)
MaxPrior == 3        \* the prior's shape a and scale b range over 1..MaxPrior

\* sum of f over the finite set s
RECURSIVE SumOver(_, _)
SumOver(f, s) ==
    IF s = {} THEN 0
    ELSE LET x == CHOOSE y \in s : TRUE IN f[x] + SumOver(f, s \ {x})

\* TreeEnsemble::NumLeaves: leaves of all trees
EnsembleNumLeaves(forest) ==
    SumOver([t \in DOMAIN forest |-> NumLeaves(forest[t])], DOMAIN forest)

\* TreeEnsemble::SumLeafSquared: squared leaf values of all leaves of all trees
SumLeafSquared(forest) ==
    SumOver([t \in DOMAIN forest |->
                SumOver([n \in GetLeaves(forest[t]) |->
                            forest[t].nodes[n].leaf_value * forest[t].nodes[n].leaf_value],
                        GetLeaves(forest[t]))],
            DOMAIN forest)

\* GlobalHomoskedasticVarianceSampler::PosteriorShape, doubled
GlobalPosteriorShape(resid, a) == a + 2 * Cardinality(DOMAIN resid)

\* GlobalHomoskedasticVarianceSampler::PosteriorScale, doubled
GlobalPosteriorScale(resid, a, b) ==
    a * b + 2 * SumOver([o \in DOMAIN resid |-> resid[o] * resid[o]], DOMAIN resid)

\* LeafNodeHomoskedasticVarianceSampler::PosteriorShape, doubled
LeafPosteriorShape(forest, a) == a + 2 * EnsembleNumLeaves(forest)

\* LeafNodeHomoskedasticVarianceSampler::PosteriorScale, doubled
LeafPosteriorScale(forest, a, b) == b + 2 * SumLeafSquared(forest)

\* the partial residual of a forest: outcome minus the sum of the trees' predictions
ResidualOf(d, forest) ==
    [o \in DOMAIN d.y |->
        d.y[o] - SumOver([t \in DOMAIN forest |-> PredictRow(forest[t], 0, d.X[o])],
                         DOMAIN forest)]

\* tree with the leaf values vals
WithLeafValues(tree, vals) ==
    [tree EXCEPT !.nodes = [n \in DOMAIN tree.nodes |->
                               IF n \in GetLeaves(tree)
                               THEN [tree.nodes[n] EXCEPT !.leaf_value = vals[n]]
                               ELSE tree.nodes[n]]]

InitVariance ==
    /\ config \in {c \in Configs : /\ c.method = "BART" /\ c.num_burnin = 0
                                    /\ c.num_samples = 1 /\ ~c.save_model_draws}
    /\ train = SweepData
    /\ prediction = Null
    /\ model_draws = (0 :> NewEnsemble)
    /\ residual = ResidualOf(train, model_draws[0])
    /\ node_tracker = [t \in Trees |-> FeatureUnsortedPartition(NumObservations(train))]
    /\ sorted_tracker = Null
    /\ mapper = [t \in Trees |-> AllRoot]
    /\ pc = "variance"
    /\ i = 0
    /\ j = 0
    /\ model_iter = 0
    /\ prev_model_iter = 0
    /\ split_queue = <<>>
    /\ node_index_map = <<>>
    /\ result = Null
    /\ accessed = {}
    /\ slot_sweep = (0 :> -1)
    /\ last_step = NoStep
    /\ hist = NoHist
    /\ sigma_log = {}
    /\ files = {}
    /\ runs = Null

\* one tree is grown at a leaf and gets fresh leaf values; the residual follows
VarianceGrow ==
    /\ pc = "variance"
    /\ EnsembleNodes(model_draws[0]) + 2 <= MaxNodes
    /\ \E t \in Trees :
         \E leaf \in GetLeaves(model_draws[0][t]), f \in Feats, v \in ForcedSplitValues :
           LET out == AddSplitToModel(train, model_draws[0][t], node_tracker[t], mapper[t],
                                      leaf, f, v)
           IN \E vals \in LeafDraws(out.tree) :
                LET forest == [model_draws[0] EXCEPT ![t] = WithLeafValues(out.tree, vals)]
                IN /\ model_draws' = [model_draws EXCEPT ![0] = forest]
                   /\ node_tracker' = [node_tracker EXCEPT ![t] = out.part]
                   /\ mapper' = [mapper EXCEPT ![t] = out.map]
                   /\ residual' = ResidualOf(train, forest)
    /\ hist' = NoHist
    /\ UNCHANGED <<config, train, prediction, sorted_tracker, pc, i, j, model_iter,
                   prev_model_iter, split_queue, node_index_map, result, accessed,
                   slot_sweep, last_step, sigma_log, files, runs>>

\* one tree gets fresh leaf values; the residual follows
VarianceLeaf ==
    /\ pc = "variance"
    /\ \E t \in Trees :
         \E vals \in LeafDraws(model_draws[0][t]) :
           LET forest == [model_draws[0] EXCEPT ![t] = WithLeafValues(@, vals)]
           IN /\ model_draws' = [model_draws EXCEPT ![0] = forest]
              /\ residual' = ResidualOf(train, forest)
    /\ hist' = NoHist
    /\ UNCHANGED <<config, train, prediction, node_tracker, sorted_tracker, mapper, pc, i, j,
                   model_iter, prev_model_iter, split_queue, node_index_map, result,
                   accessed, slot_sweep, last_step, sigma_log, files, runs>>

\* GlobalHomoskedasticVarianceSampler::SampleVarianceParameter, up to the gamma draw
SampleGlobalVariance ==
    /\ pc = "variance"
    /\ \E a \in 1..MaxPrior, b \in 1..MaxPrior :
         hist' = [op |-> "sigma_sq", a |-> a, b |-> b,
                  ig_shape |-> GlobalPosteriorShape(residual, a),
                  ig_scale |-> GlobalPosteriorScale(residual, a, b)]
    /\ UNCHANGED <<config, train, prediction, residual, model_draws, node_tracker,
                   sorted_tracker, mapper, pc, i, j, model_iter, prev_model_iter,
                   split_queue, node_index_map, result, accessed, slot_sweep, last_step,
                   sigma_log, files, runs>>

\* LeafNodeHomoskedasticVarianceSampler::SampleVarianceParameter, up to the gamma draw
SampleLeafVariance ==
    /\ pc = "variance"
    /\ \E a \in 1..MaxPrior, b \in 1..MaxPrior :
         hist' = [op |-> "tau", a |-> a, b |-> b,
                  ig_shape |-> LeafPosteriorShape(model_draws[0], a),
                  ig_scale |-> LeafPosteriorScale(model_draws[0], a, b)]
    /\ UNCHANGED <<config, train, prediction, residual, model_draws, node_tracker,
                   sorted_tracker, mapper, pc, i, j, model_iter, prev_model_iter,
                   split_queue, node_index_map, result, accessed, slot_sweep, last_step,
                   sigma_log, files, runs>>

NextVariance == VarianceGrow \/ VarianceLeaf \/ SampleGlobalVariance \/ SampleLeafVariance

SpecVariance == InitVariance /\ [][NextVariance]_vars

\* the leaves and the squared leaf values of the ensemble, counted node by node
LeafCount == Cardinality({<<t, n>> \in Trees \X (0..(2 * MaxNodes)) : n \in GetLeaves(model_draws[0][t])})

\* C30: for every forest and prior (a, b), the leaf-scale sampler uses the
\* posterior shape a/2 + L_total and the posterior scale a*b/2 + (sum of the
\* squared leaf values over all leaves of the ensemble), the form of the
\* global variance sampler (both sides doubled)
LeafScalePosterior ==
    /\ hist.op = "sigma_sq" =>
         /\ hist.ig_shape = hist.a + 2 * NumObservations(train)
         /\ hist.ig_scale = hist.a * hist.b
                            + 2 * SumOver([o \in Obs |-> residual[o] * residual[o]], Obs)
    /\ hist.op = "tau" =>
         /\ hist.ig_shape = hist.a + 2 * LeafCount
         /\ hist.ig_scale = hist.a * hist.b + 2 * SumLeafSquared(model_draws[0])

====
